---- MODULE Spec2Model ----
(***************************************************************************)
(* A model of the hotels-merge mapping engine (package mapper) and of the  *)
(* leaf resolver, the template evaluator and the grouping stage it is      *)
(* built from.                                                             *)
(*                                                                         *)
(* Strings are sequences of characters (one-character TLA+ strings), so    *)
(* that trimming, case folding, byte length and regular-expression         *)
(* matching are computed as the Go code computes them.  A value of Go's    *)
(* interface{} is a tagged record: Nil, Str, Num, Bool, Arr ([]interface{}),*)
(* Obj (map[string]interface{}), Strs ([]string), Objs ([]map[string]...). *)
(* Every `range` over a Go map visits the keys in an order the runtime     *)
(* picks; the operators take that order as a parameter, or return the set  *)
(* of the results the orders can give, and the actions choose with \E.     *)
(*                                                                         *)
(* The specifications share the variables: SpecLeaf runs one reducer or    *)
(* one action list on the value map of one leaf, SpecEval runs             *)
(* extractValue on one expression and one record, Spec runs Transform on   *)
(* an engine and supplier data, SpecLoad runs NewMappingEngine, SpecFetch  *)
(* runs FetchAndNormalize, SpecServe runs the store and the HTTP handlers, *)
(* SpecMain runs main from the mapping file to the listening server.       *)
(***************************************************************************)
EXTENDS Integers, Sequences, FiniteSets, TLC

VARIABLES
    values,     \* leaf resolver: the per-supplier value map of one leaf
    op,         \* leaf resolver: the reducer that was applied ("idle" before)
    visit,      \* leaf resolver: the order in which `range values` visited the keys
    out,        \* leaf resolver: the value the reducer returned
    leafActions, \* leaf resolver: the action list applyActions was given
    expression, \* evaluator: the source expression of one supplier of a leaf
    record,     \* evaluator: the supplier's record, field name -> JSON value
    extracted,  \* evaluator: what extractValue returned
    evalPc,     \* evaluator: "pending" before extractValue ran, "done" after
    config,     \* engine: the parsed mapping document (MappingEngine.config)
    suppliers,  \* engine: the SupplierData handed to Transform, name -> payload
    previous,   \* engine: the outcome of the Transform call before the latest
    latest,     \* engine: the outcome of the latest Transform call
    mappingJSON, \* loader: the mapping document handed to NewMappingEngine
    loaded,     \* loader: what NewMappingEngine returned ("pending" status before)
    fetchPc,    \* fetch: "fetch" in the loop over the suppliers, then "transform", "done"
    fetchLog,   \* fetch: what each request made so far came back with
    responses,  \* fetch: the map of supplier name to body FetchAndNormalize builds
    catalog,    \* fetch: what FetchAndNormalize returned
    store,      \* server: the hotels of the HotelStore
    request,    \* server: the query of the request handled last
    response,   \* server: the response written for it
    mainPc,     \* main: the statement main is at, or "serving", "exited"
    mainLog,    \* main: the steps main has completed, in order
    exitCode    \* main: the exit code of the process (-1 while it runs)

leafVars == <<values, op, visit, out, leafActions>>
evalVars == <<expression, record, extracted, evalPc>>
engineVars == <<config, suppliers, previous, latest>>
loadVars == <<mappingJSON, loaded>>
fetchVars == <<fetchPc, fetchLog, responses, catalog>>
serveVars == <<store, request, response>>
mainVars == <<mainPc, mainLog, exitCode>>
vars == <<values, op, visit, out, leafActions, expression, record, extracted, evalPc,
          config, suppliers, previous, latest, mappingJSON, loaded,
          fetchPc, fetchLog, responses, catalog, store, request, response,
          mainPc, mainLog, exitCode>>

----------------------------------------------------------------------------
(* Characters and strings                                                  *)

\* unicode.IsSpace, restricted to the characters the model uses
IsSpace(c) == c \in {" ", "\t", "\n"}

\* the number of bytes of a character in UTF-8 (Go's len counts bytes)
CharBytes(c) == IF c \in {"é", "ü"} THEN 2 ELSE 1

lowerTable ==
    ("A" :> "a") @@ ("B" :> "b") @@ ("C" :> "c") @@ ("D" :> "d") @@ ("E" :> "e")
    @@ ("F" :> "f") @@ ("G" :> "g") @@ ("H" :> "h") @@ ("I" :> "i") @@ ("J" :> "j")
    @@ ("K" :> "k") @@ ("L" :> "l") @@ ("M" :> "m") @@ ("N" :> "n") @@ ("O" :> "o")
    @@ ("P" :> "p") @@ ("Q" :> "q") @@ ("R" :> "r") @@ ("S" :> "s") @@ ("T" :> "t")
    @@ ("U" :> "u") @@ ("V" :> "v") @@ ("W" :> "w") @@ ("X" :> "x") @@ ("Y" :> "y")
    @@ ("Z" :> "z") @@ ("É" :> "é") @@ ("Ü" :> "ü")

LowerChar(c) == IF c \in DOMAIN lowerTable THEN lowerTable[c] ELSE c

\* strings.ToLower
ToLower(s) == [i \in 1..Len(s) |-> LowerChar(s[i])]

RECURSIVE TrimLeft(_)
TrimLeft(s) ==
    IF s # <<>> /\ IsSpace(Head(s)) THEN TrimLeft(Tail(s)) ELSE s

RECURSIVE TrimRight(_)
TrimRight(s) ==
    IF s # <<>> /\ IsSpace(s[Len(s)]) THEN TrimRight(SubSeq(s, 1, Len(s) - 1)) ELSE s

\* strings.TrimSpace
TrimSpace(s) == TrimRight(TrimLeft(s))

\* Go's len(string): the number of bytes
RECURSIVE ByteLen(_)
ByteLen(s) == IF s = <<>> THEN 0 ELSE CharBytes(Head(s)) + ByteLen(Tail(s))

\* utf8.RuneCountInString: the number of characters
RuneLen(s) == Len(s)

----------------------------------------------------------------------------
(* Values of interface{}                                                   *)

Nil == [t |-> "nil"]
Str(s) == [t |-> "str", s |-> s]
Num(n) == [t |-> "num", n |-> n]
Bool(b) == [t |-> "bool", b |-> b]
Arr(a) == [t |-> "arr", a |-> a]
Obj(o) == [t |-> "obj", o |-> o]
Strs(a) == [t |-> "strs", a |-> a]
Objs(a) == [t |-> "objs", a |-> a]

\* the orders in which a `range` over a map with key set S can visit it
Orders(S) ==
    {o \in [1..Cardinality(S) -> S] : \A i, j \in 1..Cardinality(S) : o[i] = o[j] => i = j}

SeqToSet(s) == {s[i] : i \in 1..Len(s)}

----------------------------------------------------------------------------
(* Default best-value policy                                               *)

\* selectStringBestValue keeping the string as the supplier wrote it
RECURSIVE stringBestFromUntrimmed(_, _, _)
stringBestFromUntrimmed(vals, order, longestStr) ==
    IF order = <<>> THEN longestStr
    ELSE LET value == vals[Head(order)]
             trimmedVal == TrimSpace(value.s)
         IN  IF value.t = "str" /\ TrimSpace(value.s) # <<>>
                /\ ByteLen(trimmedVal) > ByteLen(longestStr)
             THEN stringBestFromUntrimmed(vals, Tail(order), value.s)
             ELSE stringBestFromUntrimmed(vals, Tail(order), longestStr)

\* selectStringBestValue: the longest trimmed non-empty string, by len (bytes);
\* of two of the same length the one visited first is kept
RECURSIVE stringBestFrom(_, _, _)
stringBestFrom(vals, order, longestStr) ==
    IF order = <<>> THEN longestStr
    ELSE LET value == vals[Head(order)]
             trimmedVal == TrimSpace(value.s)
         IN  IF value.t = "str" /\ TrimSpace(value.s) # <<>>
                /\ ByteLen(trimmedVal) > ByteLen(longestStr)
             THEN stringBestFrom(vals, Tail(order), trimmedVal)
             ELSE stringBestFrom(vals, Tail(order), longestStr)

selectStringBestValue(vals, order) == Str(stringBestFrom(vals, order, <<>>))

\* selectBestValue as a loop that returns the first non-nil value unless it is a
\* string that is not blank: a blank string visited first is returned as it is
RECURSIVE selectBestValueBlankFirst(_, _, _)
selectBestValueBlankFirst(vals, order, order2) ==
    IF order = <<>> THEN Nil
    ELSE LET value == vals[Head(order)]
         IN  IF value = Nil THEN selectBestValueBlankFirst(vals, Tail(order), order2)
             ELSE IF value.t = "str" /\ TrimSpace(value.s) # <<>>
                  THEN selectStringBestValue(vals, order2)
                  ELSE value

\* selectBestValue: `order` is the visit order of its own loop, `order2` the one
\* of the loop of selectStringBestValue
RECURSIVE selectBestValue(_, _, _)
selectBestValue(vals, order, order2) ==
    IF order = <<>> THEN Nil
    ELSE LET value == vals[Head(order)]
         IN  IF value = Nil THEN selectBestValue(vals, Tail(order), order2)
             ELSE IF value.t = "str"
                  THEN IF TrimSpace(value.s) # <<>>
                       THEN selectStringBestValue(vals, order2)
                       ELSE selectBestValue(vals, Tail(order), order2)
                  ELSE value

----------------------------------------------------------------------------
(* Amenity vocabularies and normalization                                  *)

generalAmenity ==
    (<<"b","u","s","i","n","e","s","s","c","e","n","t","e","r">> :> <<"b","u","s","i","n","e","s","s"," ","c","e","n","t","e","r">>)
    @@ (<<"b","u","s","i","n","e","s","s"," ","c","e","n","t","e","r">> :> <<"b","u","s","i","n","e","s","s"," ","c","e","n","t","e","r">>)
    @@ (<<"g","y","m">> :> <<"g","y","m">>)
    @@ (<<"o","u","t","d","o","o","r"," ","p","o","o","l">> :> <<"o","u","t","d","o","o","r"," ","p","o","o","l">>)
    @@ (<<"i","n","d","o","o","r"," ","p","o","o","l">> :> <<"i","n","d","o","o","r"," ","p","o","o","l">>)
    @@ (<<"p","o","o","l">> :> <<"o","u","t","d","o","o","r"," ","p","o","o","l">>)
    @@ (<<"a","i","r","p","o","r","t"," ","s","h","u","t","t","l","e">> :> <<"a","i","r","p","o","r","t"," ","s","h","u","t","t","l","e">>)
    @@ (<<"c","h","i","l","d","c","a","r","e">> :> <<"c","h","i","l","d","c","a","r","e">>)
    @@ (<<"w","i","f","i">> :> <<"w","i","f","i">>)
    @@ (<<"d","r","y","c","l","e","a","n","i","n","g">> :> <<"d","r","y"," ","c","l","e","a","n","i","n","g">>)
    @@ (<<"d","r","y"," ","c","l","e","a","n","i","n","g">> :> <<"d","r","y"," ","c","l","e","a","n","i","n","g">>)
    @@ (<<"b","r","e","a","k","f","a","s","t">> :> <<"b","r","e","a","k","f","a","s","t">>)
    @@ (<<"b","a","r">> :> <<"b","a","r">>)
    @@ (<<"p","a","r","k","i","n","g">> :> <<"p","a","r","k","i","n","g">>)
    @@ (<<"c","o","n","c","i","e","r","g","e">> :> <<"c","o","n","c","i","e","r","g","e">>)

roomAmenity ==
    (<<"a","i","r","c","o","n">> :> <<"a","i","r","c","o","n">>)
    @@ (<<"t","v">> :> <<"t","v">>)
    @@ (<<"c","o","f","f","e","e"," ","m","a","c","h","i","n","e">> :> <<"c","o","f","f","e","e"," ","m","a","c","h","i","n","e">>)
    @@ (<<"k","e","t","t","l","e">> :> <<"k","e","t","t","l","e">>)
    @@ (<<"h","a","i","r"," ","d","r","y","e","r">> :> <<"h","a","i","r"," ","d","r","y","e","r">>)
    @@ (<<"i","r","o","n">> :> <<"i","r","o","n">>)
    @@ (<<"b","a","t","h","t","u","b">> :> <<"b","a","t","h","t","u","b">>)
    @@ (<<"t","u","b">> :> <<"b","a","t","h","t","u","b">>)
    @@ (<<"m","i","n","i","b","a","r">> :> <<"m","i","n","i","b","a","r">>)

\* the canonical values of a vocabulary
Canonical(amenityMap) == {amenityMap[k] : k \in DOMAIN amenityMap}

digitChars == <<"0", "1", "2", "3", "4", "5", "6", "7", "8", "9">>

RECURSIVE FormatNat(_)
FormatNat(n) ==
    IF n < 10 THEN <<digitChars[n + 1]>>
    ELSE FormatNat(n \div 10) \o <<digitChars[(n % 10) + 1]>>

RECURSIVE JoinFormatted(_)
\* fmt.Sprintf("%v", item): the string form mergeLists deduplicates by
RECURSIVE FormatV(_)
FormatV(v) ==
    CASE v.t = "str" -> v.s
      [] v.t = "num" -> IF v.n < 0 THEN <<"-">> \o FormatNat(-v.n) ELSE FormatNat(v.n)
      [] v.t = "bool" -> IF v.b THEN <<"t","r","u","e">> ELSE <<"f","a","l","s","e">>
      [] v.t = "nil" -> <<"<","n","i","l",">">>
      [] v.t = "arr" -> <<"[">> \o JoinFormatted(v.a) \o <<"]">>

JoinFormatted(a) ==
    IF a = <<>> THEN <<>>
    ELSE IF Len(a) = 1 THEN FormatV(a[1])
    ELSE FormatV(a[1]) \o <<" ">> \o JoinFormatted(Tail(a))

\* toLowerCase: a string is lowercased, a []interface{} element-wise,
\* anything else (a []string too) passes through
RECURSIVE toLowerCase(_)
toLowerCase(value) ==
    CASE value.t = "str" -> Str(ToLower(value.s))
      [] value.t = "arr" -> Arr([i \in 1..Len(value.a) |-> toLowerCase(value.a[i])])
      [] OTHER -> value

\* mergeLists, second loop: append the items not yet seen by string form
RECURSIVE appendUnseen(_, _)
appendUnseen(merged, items) ==
    IF items = <<>> THEN merged
    ELSE IF \E i \in 1..Len(merged) : FormatV(merged[i]) = FormatV(Head(items))
         THEN appendUnseen(merged, Tail(items))
         ELSE appendUnseen(Append(merged, Head(items)), Tail(items))

RECURSIVE mergeFrom(_, _, _)
mergeFrom(vals, order, merged) ==
    IF order = <<>> THEN merged
    ELSE LET value == vals[Head(order)]
         IN  IF value = Nil THEN mergeFrom(vals, Tail(order), merged)
             ELSE IF value.t = "arr"
                  THEN mergeFrom(vals, Tail(order), appendUnseen(merged, value.a))
                  ELSE mergeFrom(vals, Tail(order), appendUnseen(merged, <<value>>))

\* mergeLists: every supplier's list (a non-list value counts as one item) in
\* visit order, without the items whose string form was seen before
mergeLists(vals, order) == Arr(mergeFrom(vals, order, <<>>))

\* seenValue without the vocabulary check: a lowercased term that the
\* vocabulary does not know is kept as it is
seenValueKeepUnknown(vals, amenityMap, order, order2) ==
    IF order = <<>> THEN {}
    ELSE LET value == vals[Head(order)]
         IN  IF value.t = "arr" /\ Len(value.a) > 0
             THEN LET lowered == toLowerCase(mergeLists(vals, order2))
                  IN  {IF lowered.a[i].s \in DOMAIN amenityMap
                       THEN amenityMap[lowered.a[i].s] ELSE lowered.a[i].s :
                         i \in {j \in 1..Len(lowered.a) : lowered.a[j].t = "str"}}
             ELSE {}

\* normalizeAmenities, the keys of seenValue: only the value visited first is
\* looked at (the loop breaks after its first iteration); when it is a
\* non-empty list, all lists are merged, lowercased and looked up
seenValue(vals, amenityMap, order, order2) ==
    IF order = <<>> THEN {}
    ELSE LET value == vals[Head(order)]
         IN  IF value.t = "arr" /\ Len(value.a) > 0
             THEN LET lowered == toLowerCase(mergeLists(vals, order2))
                  IN  {amenityMap[lowered.a[i].s] :
                         i \in {j \in 1..Len(lowered.a) :
                                  /\ lowered.a[j].t = "str"
                                  /\ lowered.a[j].s \in DOMAIN amenityMap}}
             ELSE {}

\* normalizeAmenities: the results it can return, one for each order in which
\* the final `range seenValue` can visit the canonical names
normalizeAmenities(vals, amenityMap, order, order2) ==
    {Strs(d) : d \in Orders(seenValue(vals, amenityMap, order, order2))}

normalizeGeneralAmenities(vals, order, order2) ==
    normalizeAmenities(vals, generalAmenity, order, order2)

normalizeRoomAmenities(vals, order, order2) ==
    normalizeAmenities(vals, roomAmenity, order, order2)

----------------------------------------------------------------------------
(* Object-array merging                                                    *)

\* normalizeObject, inner loop: the first candidate field that holds a string
\* that is not blank, trimmed; Nil when no candidate does
RECURSIVE firstValid(_, _)
firstValid(obj, possibleSupplierFields) ==
    IF possibleSupplierFields = <<>> THEN Nil
    ELSE LET supplierField == Head(possibleSupplierFields)
         IN  IF /\ supplierField \in DOMAIN obj
                /\ obj[supplierField] # Nil
                /\ obj[supplierField].t = "str"
                /\ TrimSpace(obj[supplierField].s) # <<>>
             THEN Str(TrimSpace(obj[supplierField].s))
             ELSE firstValid(obj, Tail(possibleSupplierFields))

\* normalizeObject: the target fields that have a valid candidate
normalizeObject(obj, fieldMapping) ==
    [targetField \in {f \in DOMAIN fieldMapping : firstValid(obj, fieldMapping[f]) # Nil}
        |-> firstValid(obj, fieldMapping[targetField])]

\* appendUnique without the seenObject check: every object with an identifier
\* is appended
RECURSIVE appendUniqueNoSeen(_, _, _, _)
appendUniqueNoSeen(uniqueObjects, arr, fieldMapping, uniqueIdentifier) ==
    IF arr = <<>> THEN uniqueObjects
    ELSE LET rest == Tail(arr)
             normalizedObject == normalizeObject(Head(arr).o, fieldMapping)
         IN  IF Head(arr).t # "obj"
             THEN appendUniqueNoSeen(uniqueObjects, rest, fieldMapping, uniqueIdentifier)
             ELSE IF /\ uniqueIdentifier \in DOMAIN normalizedObject
                     /\ normalizedObject[uniqueIdentifier].s # <<>>
                  THEN appendUniqueNoSeen(Append(uniqueObjects, normalizedObject), rest,
                                          fieldMapping, uniqueIdentifier)
                  ELSE appendUniqueNoSeen(uniqueObjects, rest, fieldMapping, uniqueIdentifier)

\* appendUnique where a later object with a seen identifier overwrites the one
\* kept before
RECURSIVE appendUniqueLastWins(_, _, _, _)
appendUniqueLastWins(uniqueObjects, arr, fieldMapping, uniqueIdentifier) ==
    IF arr = <<>> THEN uniqueObjects
    ELSE LET rest == Tail(arr)
             normalizedObject == normalizeObject(Head(arr).o, fieldMapping)
         IN  IF Head(arr).t # "obj"
             THEN appendUniqueLastWins(uniqueObjects, rest, fieldMapping, uniqueIdentifier)
             ELSE IF /\ uniqueIdentifier \in DOMAIN normalizedObject
                     /\ normalizedObject[uniqueIdentifier].s # <<>>
                  THEN IF \A i \in 1..Len(uniqueObjects) :
                            uniqueObjects[i][uniqueIdentifier] # normalizedObject[uniqueIdentifier]
                       THEN appendUniqueLastWins(Append(uniqueObjects, normalizedObject), rest,
                                                 fieldMapping, uniqueIdentifier)
                       ELSE appendUniqueLastWins(
                              [i \in 1..Len(uniqueObjects) |->
                                 IF uniqueObjects[i][uniqueIdentifier] = normalizedObject[uniqueIdentifier]
                                 THEN normalizedObject ELSE uniqueObjects[i]],
                              rest, fieldMapping, uniqueIdentifier)
                  ELSE appendUniqueLastWins(uniqueObjects, rest, fieldMapping, uniqueIdentifier)

\* mergeObjectArrays, inner loop over one supplier's array
RECURSIVE appendUnique(_, _, _, _)
appendUnique(uniqueObjects, arr, fieldMapping, uniqueIdentifier) ==
    IF arr = <<>> THEN uniqueObjects
    ELSE LET rest == Tail(arr)
             normalizedObject == normalizeObject(Head(arr).o, fieldMapping)
         IN  IF Head(arr).t # "obj"
             THEN appendUnique(uniqueObjects, rest, fieldMapping, uniqueIdentifier)
             ELSE IF /\ uniqueIdentifier \in DOMAIN normalizedObject
                     /\ normalizedObject[uniqueIdentifier].s # <<>>
                     /\ \A i \in 1..Len(uniqueObjects) :
                           uniqueObjects[i][uniqueIdentifier] # normalizedObject[uniqueIdentifier]
                  THEN appendUnique(Append(uniqueObjects, normalizedObject), rest,
                                    fieldMapping, uniqueIdentifier)
                  ELSE appendUnique(uniqueObjects, rest, fieldMapping, uniqueIdentifier)

RECURSIVE mergeObjectsFrom(_, _, _, _, _)
mergeObjectsFrom(vals, order, fieldMapping, uniqueIdentifier, uniqueObjects) ==
    IF order = <<>> THEN uniqueObjects
    ELSE LET value == vals[Head(order)]
         IN  IF value # Nil /\ value.t = "arr"
             THEN mergeObjectsFrom(vals, Tail(order), fieldMapping, uniqueIdentifier,
                     appendUnique(uniqueObjects, value.a, fieldMapping, uniqueIdentifier))
             ELSE mergeObjectsFrom(vals, Tail(order), fieldMapping, uniqueIdentifier,
                     uniqueObjects)

\* mergeObjectArrays: the normalized objects of every supplier's array in visit
\* order, one per value of the unique identifier field
mergeObjectArrays(vals, fieldMapping, uniqueIdentifier, order) ==
    Objs(mergeObjectsFrom(vals, order, fieldMapping, uniqueIdentifier, <<>>))

----------------------------------------------------------------------------
(* Path / template evaluator                                               *)

\* strings.Contains
Contains(s, sub) ==
    \E i \in 1..(Len(s) - Len(sub) + 1) : SubSeq(s, i, i + Len(sub) - 1) = sub

\* strings.ReplaceAll for a non-empty `old`: left to right, not overlapping
RECURSIVE ReplaceAll(_, _, _)
ReplaceAll(s, old, new) ==
    IF Len(s) < Len(old) THEN s
    ELSE IF SubSeq(s, 1, Len(old)) = old
         THEN new \o ReplaceAll(SubSeq(s, Len(old) + 1, Len(s)), old, new)
         ELSE <<Head(s)>> \o ReplaceAll(Tail(s), old, new)

\* isTemplate
isTemplate(str) == Contains(str, <<"{", "{">>) /\ Contains(str, <<"}", "}">>)

\* the first position from i on that holds no `stop` character (Len(s) + 1 when none)
RECURSIVE RunEnd(_, _, _)
RunEnd(s, i, stop) ==
    IF i > Len(s) \/ s[i] \in stop THEN i ELSE RunEnd(s, i + 1, stop)

\* the regular expression \{\{([^}]+)\}\} matched at position i: the position
\* of the last character of the match, 0 when it does not match there
PlaceholderEnd(s, i) ==
    LET j == RunEnd(s, i + 2, {"}"})
    IN  IF /\ i + 1 <= Len(s) /\ s[i] = "{" /\ s[i + 1] = "{"
           /\ j > i + 2
           /\ j + 1 <= Len(s) /\ s[j] = "}" /\ s[j + 1] = "}"
        THEN j + 1
        ELSE 0

\* re.FindAllStringSubmatch(template, -1): the matches from left to right, not
\* overlapping, each as <<placeholder, fieldName>>
RECURSIVE FindAllPlaceholders(_, _)
FindAllPlaceholders(s, i) ==
    IF i > Len(s) THEN <<>>
    ELSE LET e == PlaceholderEnd(s, i)
         IN  IF e > 0
             THEN <<<<SubSeq(s, i, e), SubSeq(s, i + 2, e - 2)>>>> \o FindAllPlaceholders(s, e + 1)
             ELSE FindAllPlaceholders(s, i + 1)

\* the first position from i on that holds no whitespace (Len(s) + 1 when none)
RECURSIVE SkipSpace(_, _)
SkipSpace(s, i) ==
    IF i <= Len(s) /\ IsSpace(s[i]) THEN SkipSpace(s, i + 1) ELSE i

\* the regular expression \s*,\s*,\s* matched at position i: the position after
\* the match, 0 when it does not match there
DoubleCommaEnd(s, i) ==
    LET a == SkipSpace(s, i)
        b == SkipSpace(s, a + 1)
    IN  IF a <= Len(s) /\ s[a] = "," /\ b <= Len(s) /\ s[b] = ","
        THEN SkipSpace(s, b + 1)
        ELSE 0

\* regexp.MustCompile(`\s*,\s*,\s*`).ReplaceAllString(result, ", ")
RECURSIVE CollapseCommas(_, _)
CollapseCommas(s, i) ==
    IF i > Len(s) THEN <<>>
    ELSE LET e == DoubleCommaEnd(s, i)
         IN  IF e > 0 THEN <<",", " ">> \o CollapseCommas(s, e)
             ELSE <<s[i]>> \o CollapseCommas(s, i + 1)

\* regexp.MustCompile(`^,\s*|,\s*$`).ReplaceAllString(result, ""): a comma at
\* the start goes with the whitespace after it, and a comma that only
\* whitespace follows to the end goes with that whitespace
StripEdgeCommas(s) ==
    LET rest == IF s # <<>> /\ s[1] = "," THEN SubSeq(s, SkipSpace(s, 2), Len(s)) ELSE s
        tails == {i \in 1..Len(rest) : rest[i] = "," /\ SkipSpace(rest, i + 1) > Len(rest)}
    IN  IF tails = {} THEN rest
        ELSE SubSeq(rest, 1, (CHOOSE i \in tails : \A h \in tails : i <= h) - 1)

\* strings.Split(s, sep) for a one-character separator
RECURSIVE Split(_, _)
Split(s, sep) ==
    LET i == RunEnd(s, 1, {sep})
    IN  IF i > Len(s) THEN <<s>>
        ELSE <<SubSeq(s, 1, i - 1)>> \o Split(SubSeq(s, i + 1, Len(s)), sep)

\* gjson.Get for a path of dot-separated keys: [exists |-> FALSE] when a key is
\* missing or a step is not an object, else the JSON value found (Nil for null)
RECURSIVE gjsonWalk(_, _)
gjsonWalk(json, parts) ==
    IF parts = <<>> THEN [exists |-> TRUE, value |-> json]
    ELSE IF json.t = "obj" /\ Head(parts) \in DOMAIN json.o
         THEN gjsonWalk(json.o[Head(parts)], Tail(parts))
         ELSE [exists |-> FALSE]

gjsonGet(json, path) == gjsonWalk(json, Split(path, "."))

\* gjson's Result.String(): a string as it is, a number formatted, null empty
gjsonString(v) ==
    CASE v.t = "str" -> v.s
      [] v.t = "num" -> FormatV(v)
      [] v.t = "bool" -> FormatV(v)
      [] v.t = "nil" -> <<>>

\* processTemplate, the substitution loop: each match replaces every occurrence
\* of its placeholder in the running result
RECURSIVE substitute(_, _, _)
substitute(result, matches, supplierData) ==
    IF matches = <<>> THEN result
    ELSE LET placeholder == Head(matches)[1]
             fieldName == Head(matches)[2]
             value == gjsonGet(supplierData, fieldName)
         IN  IF value.exists
             THEN substitute(ReplaceAll(result, placeholder,
                                        TrimSpace(gjsonString(value.value))),
                             Tail(matches), supplierData)
             ELSE substitute(ReplaceAll(result, placeholder, <<>>),
                             Tail(matches), supplierData)

\* processTemplate
processTemplate(supplierData, template) ==
    StripEdgeCommas(
        CollapseCommas(
            TrimSpace(substitute(template, FindAllPlaceholders(template, 1), supplierData)), 1))

\* extractValue: nil for an expression that is null or no string; a template
\* gives the processed string, a path the typed value found there (nil when
\* absent or JSON null; an empty array is a non-nil empty []interface{})
extractValue(supplierData, pathOrTemplate) ==
    IF pathOrTemplate = Nil \/ pathOrTemplate.t # "str" THEN Nil
    ELSE IF isTemplate(pathOrTemplate.s)
         THEN Str(processTemplate(supplierData, pathOrTemplate.s))
         ELSE LET result == gjsonGet(supplierData, pathOrTemplate.s)
              IN  IF result.exists THEN result.value ELSE Nil

----------------------------------------------------------------------------
(* Leaf resolver: inputs and actions                                       *)

SupplierKeys == {"src::s1", "src::s2", "src::s3"}

ScalarInputs ==
    { Str(<<>>), Str(<<" ">>), Str(<<"a">>), Str(<<"b">>), Str(<<" ", "a", "b", " ">>),
      Str(<<"a", "b", "c">>), Str(<<"é", "é">>), Num(1), Num(2), Bool(TRUE),
      Arr(<<Str(<<"a">>)>>) }

\* a value map: some of the suppliers, each with a non-nil value
ValueMaps(keys, inputs) == UNION {[ks -> inputs] : ks \in SUBSET keys}

\* the sequences over S of length at most n
SeqsUpTo(S, n) == UNION {[1..k -> S] : k \in 0..n}

\* the sequences of at most n elements of S, each element at most once
DistinctSeqsUpTo(S, n) ==
    {s \in SeqsUpTo(S, n) : \A i, j \in 1..Len(s) : s[i] = s[j] => i = j}

MaxItems == 2

AmenityItems ==
    { Str(<<"W","i","F","i">>), Str(<<"w","i","f","i">>), Str(<<"p","o","o","l">>),
      Str(<<"T","u","b">>), Str(<<"s","p","a">>) }

AmenityKeys == {"src::s1", "src::s2"}

AmenityInputs ==
    {Arr(a) : a \in SeqsUpTo(AmenityItems, MaxItems)}
    \cup {Str(<<"g","y","m">>), Num(1)}

\* the field-alias table of the images leaf
ImageFieldMapping ==
    (<<"l","i","n","k">> :> <<<<"u","r","l">>, <<"l","i","n","k">>>>) @@ (<<"d","e","s","c","r","i","p","t","i","o","n">> :> <<<<"d","e","s","c","r","i","p","t","i","o","n">>, <<"c","a","p","t","i","o","n">>>>)

ImageItems ==
    { Obj((<<"u","r","l">> :> Str(<<"l","1">>)) @@ (<<"d","e","s","c","r","i","p","t","i","o","n">> :> Str(<<"d","1">>))),
      Obj((<<"u","r","l">> :> Str(<<"l","1">>)) @@ (<<"d","e","s","c","r","i","p","t","i","o","n">> :> Str(<<"d","2">>))),
      Obj((<<"l","i","n","k">> :> Str(<<" ","l","1"," ">>)) @@ (<<"c","a","p","t","i","o","n">> :> Str(<<"d","3">>))),
      Obj((<<"u","r","l">> :> Str(<<" ">>)) @@ (<<"l","i","n","k">> :> Str(<<"l","2">>)) @@ (<<"c","a","p","t","i","o","n">> :> Str(<<"d","1">>))),
      Obj((<<"d","e","s","c","r","i","p","t","i","o","n">> :> Str(<<"d","1">>)) @@ (<<"l","i","n","k">> :> Num(7))) }

ImageInputs ==
    {Arr(a) : a \in SeqsUpTo(ImageItems, MaxItems)} \cup {Str(<<"l","1">>)}

InitLeaf ==
    /\ \/ values \in ValueMaps(SupplierKeys, ScalarInputs)
       \/ values \in ValueMaps(AmenityKeys, AmenityInputs)
       \/ values \in ValueMaps(AmenityKeys, ImageInputs)
    /\ op = "idle"
    /\ visit = <<>>
    /\ out = Nil
    /\ leafActions = <<>>
    /\ expression = <<>>
    /\ record = Nil
    /\ extracted = Nil
    /\ evalPc = "unused"
    /\ config = Nil
    /\ suppliers = <<>>
    /\ previous = Nil
    /\ latest = Nil
    /\ mappingJSON = Nil
    /\ loaded = Nil
    /\ fetchPc = "unused"
    /\ fetchLog = <<>>
    /\ responses = <<>>
    /\ catalog = Nil
    /\ store = Nil
    /\ request = Nil
    /\ response = Nil
    /\ mainPc = "unused"
    /\ mainLog = <<>>
    /\ exitCode = -1

DoSelectBestValue ==
    /\ op = "idle"
    /\ \E order, order2 \in Orders(DOMAIN values) :
          /\ out' = selectBestValue(values, order, order2)
          /\ visit' = order
    /\ op' = "selectBestValue"
    /\ UNCHANGED <<values, leafActions, evalVars, engineVars, loadVars, fetchVars, serveVars, mainVars>>

DoNormalizeGeneralAmenities ==
    /\ op = "idle"
    /\ \A k \in DOMAIN values : values[k] \in AmenityInputs \cup ScalarInputs
    /\ \E order, order2 \in Orders(DOMAIN values) :
          /\ out' \in normalizeGeneralAmenities(values, order, order2)
          /\ visit' = order
    /\ op' = "normalize_general_amenities"
    /\ UNCHANGED <<values, leafActions, evalVars, engineVars, loadVars, fetchVars, serveVars, mainVars>>

DoNormalizeRoomAmenities ==
    /\ op = "idle"
    /\ \A k \in DOMAIN values : values[k] \in AmenityInputs \cup ScalarInputs
    /\ \E order, order2 \in Orders(DOMAIN values) :
          /\ out' \in normalizeRoomAmenities(values, order, order2)
          /\ visit' = order
    /\ op' = "normalize_room_amenities"
    /\ UNCHANGED <<values, leafActions, evalVars, engineVars, loadVars, fetchVars, serveVars, mainVars>>

DoMergeImageArrays ==
    /\ op = "idle"
    /\ \E order \in Orders(DOMAIN values) :
          /\ out' = mergeObjectArrays(values, ImageFieldMapping, <<"l","i","n","k">>, order)
          /\ visit' = order
    /\ op' = "merge_image_arrays"
    /\ UNCHANGED <<values, leafActions, evalVars, engineVars, loadVars, fetchVars, serveVars, mainVars>>

----------------------------------------------------------------------------
(* Evaluator: inputs and actions                                           *)

MaxExprLen == 5

ExprChars == {"{", "}", "a", ",", " "}

FieldNames == {<<"a">>, <<"b">>, <<"c">>}

\* the expressions by enumeration: every string up to MaxExprLen that is a
\* template whose placeholders name fields by letters
EnumeratedTemplates ==
    {e \in SeqsUpTo(ExprChars, MaxExprLen) :
        /\ isTemplate(e)
        /\ \A m \in SeqToSet(FindAllPlaceholders(e, 1)) : m[2] \in FieldNames}

\* address-like templates of two, three and four placeholders
ListedTemplates ==
    { <<"{","{","a","}","}",","," ","{","{","b","}","}">>,
      <<"{","{","a","}","}"," ","{","{","b","}","}">>,
      <<"{","{","a","}","}",","," ","{","{","b","}","}",","," ","{","{","c","}","}">>,
      <<"{","{","a","}","}",",","{","{","b","}","}"," ",","," ","{","{","a","}","}">>,
      <<"{","{","a","}","}",","," ","{","{","b","}","}",","," ",
        "{","{","b","}","}",","," ","{","{","a","}","}">> }

FieldInputs ==
    { Str(<<>>), Str(<<"x">>), Str(<<" ", "x", "y", " ">>), Str(<<"{", "{">>),
      Str(<<"}", "}">>), Str(<<"{","{","b","}","}">>), Num(5), Nil }

ListedFieldInputs == { Str(<<>>), Str(<<"x">>), Str(<<" ", "y", " ">>), Str(<<",">>) }

\* a record: some of the fields, each with a value
Records(names, inputs) == {Obj(f) : f \in UNION {[ns -> inputs] : ns \in SUBSET names}}

InitEval ==
    /\ \/ /\ expression \in EnumeratedTemplates
          /\ record \in Records({<<"a">>, <<"b">>}, FieldInputs)
       \/ /\ expression \in ListedTemplates
          /\ record \in Records(FieldNames, ListedFieldInputs)
    /\ extracted = Nil
    /\ evalPc = "pending"
    /\ values = <<>>
    /\ op = "unused"
    /\ visit = <<>>
    /\ out = Nil
    /\ leafActions = <<>>
    /\ config = Nil
    /\ suppliers = <<>>
    /\ previous = Nil
    /\ latest = Nil
    /\ mappingJSON = Nil
    /\ loaded = Nil
    /\ fetchPc = "unused"
    /\ fetchLog = <<>>
    /\ responses = <<>>
    /\ catalog = Nil
    /\ store = Nil
    /\ request = Nil
    /\ response = Nil
    /\ mainPc = "unused"
    /\ mainLog = <<>>
    /\ exitCode = -1

DoExtractValue ==
    /\ evalPc = "pending"
    /\ extracted' = extractValue(record, Str(expression))
    /\ evalPc' = "done"
    /\ UNCHANGED <<expression, record, leafVars, engineVars, loadVars, fetchVars, serveVars, mainVars>>

NextEval == DoExtractValue

SpecEval == InitEval /\ [][NextEval]_vars

----------------------------------------------------------------------------
(* Mapping engine: grouping, the walk over the mapping tree, Transform     *)

dataSupplierPrefix == <<"s", "r", "c", ":", ":">>

\* strings.HasPrefix and strings.TrimPrefix
HasPrefix(s, prefix) ==
    Len(s) >= Len(prefix) /\ SubSeq(s, 1, Len(prefix)) = prefix

TrimPrefix(s, prefix) ==
    IF HasPrefix(s, prefix) THEN SubSeq(s, Len(prefix) + 1, Len(s)) ELSE s

\* the elements of a []interface{} that are strings, in order
RECURSIVE StringsOf(_)
StringsOf(a) ==
    IF a = <<>> THEN <<>>
    ELSE IF Head(a).t = "str" THEN <<Head(a).s>> \o StringsOf(Tail(a))
         ELSE StringsOf(Tail(a))

\* extractIdFieldMapping: supplier name -> id path, from the "id" entry of the
\* mapping; the unchecked type assertions panic when the entry is missing or
\* no object, or when a supplier's expression in it is no string
extractIdFieldMapping(cfg) ==
    IF \/ <<"i", "d">> \notin DOMAIN cfg
       \/ cfg[<<"i", "d">>].t # "obj"
       \/ \E key \in DOMAIN cfg[<<"i", "d">>].o :
             HasPrefix(key, dataSupplierPrefix) /\ cfg[<<"i", "d">>].o[key].t # "str"
    THEN [panic |-> TRUE]
    ELSE LET idConfig == cfg[<<"i", "d">>].o
             names == {TrimPrefix(key, dataSupplierPrefix) :
                          key \in {k \in DOMAIN idConfig :
                                     HasPrefix(k, dataSupplierPrefix)}}
         IN  [panic |-> FALSE,
              idMappings |-> [supplierName \in names |->
                                 idConfig[dataSupplierPrefix \o supplierName].s]]

\* groupItems without the test on the id: no item is skipped, an item without
\* an id is grouped under the empty string
RECURSIVE groupItemsKeepEmpty(_, _, _, _)
groupItemsKeepEmpty(hotelGroups, supplierKey, idField, items) ==
    IF items = <<>> THEN hotelGroups
    ELSE LET hotelItem == Head(items)
             hotelId == gjsonGet(hotelItem, idField)
             hotelIdStr == IF hotelId.exists THEN gjsonString(hotelId.value) ELSE <<>>
             group == IF hotelIdStr \in DOMAIN hotelGroups
                      THEN hotelGroups[hotelIdStr] ELSE <<>>
             stored == [k \in DOMAIN group \cup {supplierKey} |->
                          IF k = supplierKey THEN hotelItem ELSE group[k]]
         IN  groupItemsKeepEmpty([h \in DOMAIN hotelGroups \cup {hotelIdStr} |->
                                     IF h = hotelIdStr THEN stored ELSE hotelGroups[h]],
                                 supplierKey, idField, Tail(items))

\* groupHotelsById, inner loop over one supplier's array: an item whose id is
\* absent or has the empty string form is skipped; a later item of the same
\* supplier with the same id replaces the earlier one
RECURSIVE groupItems(_, _, _, _)
groupItems(hotelGroups, supplierKey, idField, items) ==
    IF items = <<>> THEN hotelGroups
    ELSE LET hotelItem == Head(items)
             hotelId == gjsonGet(hotelItem, idField)
         IN  IF ~hotelId.exists \/ gjsonString(hotelId.value) = <<>>
             THEN groupItems(hotelGroups, supplierKey, idField, Tail(items))
             ELSE LET hotelIdStr == gjsonString(hotelId.value)
                      group == IF hotelIdStr \in DOMAIN hotelGroups
                               THEN hotelGroups[hotelIdStr] ELSE <<>>
                      stored == [k \in DOMAIN group \cup {supplierKey} |->
                                   IF k = supplierKey THEN hotelItem ELSE group[k]]
                  IN  groupItems([h \in DOMAIN hotelGroups \cup {hotelIdStr} |->
                                     IF h = hotelIdStr THEN stored ELSE hotelGroups[h]],
                                 supplierKey, idField, Tail(items))

\* groupSuppliers that passes over a payload that is no array instead of
\* ending the call
RECURSIVE groupSuppliersSkipNonArray(_, _, _, _)
groupSuppliersSkipNonArray(hotelGroups, idFieldMappings, supplierData, order) ==
    IF order = <<>> THEN [err |-> "", hotelGroups |-> hotelGroups]
    ELSE LET supplierKey == Head(order)
             supplierArray == supplierData[supplierKey]
         IN  IF supplierArray.t # "arr"
             THEN groupSuppliersSkipNonArray(hotelGroups, idFieldMappings,
                                             supplierData, Tail(order))
             ELSE IF supplierKey \notin DOMAIN idFieldMappings
             THEN [err |-> "no id field mapping", supplier |-> supplierKey]
             ELSE groupSuppliersSkipNonArray(
                      groupItems(hotelGroups, supplierKey,
                                 idFieldMappings[supplierKey], supplierArray.a),
                      idFieldMappings, supplierData, Tail(order))

\* groupHotelsById, outer loop: the suppliers in visit order; the first one
\* whose payload is no array, or that has no id mapping, ends the call
RECURSIVE groupSuppliers(_, _, _, _)
groupSuppliers(hotelGroups, idFieldMappings, supplierData, order) ==
    IF order = <<>> THEN [err |-> "", hotelGroups |-> hotelGroups]
    ELSE LET supplierKey == Head(order)
             supplierArray == supplierData[supplierKey]
         IN  IF supplierArray.t # "arr"
             THEN [err |-> "is not an array", supplier |-> supplierKey]
             ELSE IF supplierKey \notin DOMAIN idFieldMappings
             THEN [err |-> "no id field mapping", supplier |-> supplierKey]
             ELSE groupSuppliers(groupItems(hotelGroups, supplierKey,
                                            idFieldMappings[supplierKey],
                                            supplierArray.a),
                                 idFieldMappings, supplierData, Tail(order))

groupHotelsById(cfg, supplierData, order) ==
    LET idFieldMappings == extractIdFieldMapping(cfg)
    IN  IF idFieldMappings.panic THEN [err |-> "panic"]
        ELSE groupSuppliers(<<>>, idFieldMappings.idMappings, supplierData, order)

\* isLeafMapping asking that every key carry the supplier prefix
isLeafMappingOnlySources(mapping) ==
    /\ DOMAIN mapping # {}
    /\ \A key \in DOMAIN mapping : HasPrefix(key, dataSupplierPrefix)

\* isLeafMapping: some key carries the supplier prefix
isLeafMapping(mapping) ==
    \E key \in DOMAIN mapping : HasPrefix(key, dataSupplierPrefix)

\* parseFieldMapping
parseFieldMapping(mapping) ==
    [SupplierPaths |->
        [key \in {k \in DOMAIN mapping : HasPrefix(k, dataSupplierPrefix)} |->
            mapping[key]],
     Actions |->
        IF <<"a", "c", "t", "i", "o", "n", "s">> \in DOMAIN mapping /\ mapping[<<"a", "c", "t", "i", "o", "n", "s">>].t = "arr"
        THEN StringsOf(mapping[<<"a", "c", "t", "i", "o", "n", "s">>].a) ELSE <<>>,
     ObjectArrayFieldMapping |->
        IF /\ <<"f", "i", "e", "l", "d", "_", "m", "a", "p", "p", "i", "n", "g">> \in DOMAIN mapping
           /\ mapping[<<"f", "i", "e", "l", "d", "_", "m", "a", "p", "p", "i", "n", "g">>].t = "obj"
        THEN LET fieldMapConfig == mapping[<<"f", "i", "e", "l", "d", "_", "m", "a", "p", "p", "i", "n", "g">>].o
             IN  [fieldName \in {f \in DOMAIN fieldMapConfig :
                                    fieldMapConfig[f].t = "arr"} |->
                     StringsOf(fieldMapConfig[fieldName].a)]
        ELSE <<>>]

\* extractValuesFromSuppliers: supplier key -> extracted value, for the
\* suppliers that are in the group and whose value is not nil
extractValuesFromSuppliers(supplierPaths, group) ==
    LET valueOf(supplierKey) ==
            extractValue(group[TrimPrefix(supplierKey, dataSupplierPrefix)],
                         supplierPaths[supplierKey])
    IN  [supplierKey \in
            {k \in DOMAIN supplierPaths :
                /\ TrimPrefix(k, dataSupplierPrefix) \in DOMAIN group
                /\ valueOf(k) # Nil} |-> valueOf(supplierKey)]

\* applyActions giving up, with nothing, at an action name that is not known
RECURSIVE applyActionsFromAbortUnknown(_, _, _, _)
applyActionsFromAbortUnknown(vals, actions, fieldMapping, result) ==
    IF actions = <<>> THEN {result}
    ELSE LET action == TrimSpace(Head(actions))
             orders == Orders(DOMAIN vals)
             next ==
               CASE action = <<"n", "o", "r", "m", "a", "l", "i", "z", "e", "_", "g", "e", "n", "e", "r", "a", "l", "_", "a", "m", "e", "n", "i", "t", "i", "e", "s">> ->
                      UNION {normalizeGeneralAmenities(vals, o, o2) :
                                o \in orders, o2 \in orders}
                 [] action = <<"n", "o", "r", "m", "a", "l", "i", "z", "e", "_", "r", "o", "o", "m", "_", "a", "m", "e", "n", "i", "t", "i", "e", "s">> ->
                      UNION {normalizeRoomAmenities(vals, o, o2) :
                                o \in orders, o2 \in orders}
                 [] action = <<"m", "e", "r", "g", "e", "_", "i", "m", "a", "g", "e", "_", "a", "r", "r", "a", "y", "s">> ->
                      {mergeObjectArrays(vals, fieldMapping.ObjectArrayFieldMapping,
                                         <<"l", "i", "n", "k">>, o) : o \in orders}
                 [] action = <<"t", "o", "_", "l", "o", "w", "e", "r", "c", "a", "s", "e">> -> {toLowerCase(result)}
                 [] OTHER -> {}
         IN  IF next = {} THEN {Nil}
             ELSE UNION {applyActionsFromAbortUnknown(vals, Tail(actions), fieldMapping, r) :
                           r \in next}

\* applyActions: the results the action list can give, from the running
\* result on; an action name that is not known changes nothing
RECURSIVE applyActionsFrom(_, _, _, _)
applyActionsFrom(vals, actions, fieldMapping, result) ==
    IF actions = <<>> THEN {result}
    ELSE LET action == TrimSpace(Head(actions))
             orders == Orders(DOMAIN vals)
             next ==
               CASE action = <<"n", "o", "r", "m", "a", "l", "i", "z", "e", "_", "g", "e", "n", "e", "r", "a", "l", "_", "a", "m", "e", "n", "i", "t", "i", "e", "s">> ->
                      UNION {normalizeGeneralAmenities(vals, o, o2) :
                                o \in orders, o2 \in orders}
                 [] action = <<"n", "o", "r", "m", "a", "l", "i", "z", "e", "_", "r", "o", "o", "m", "_", "a", "m", "e", "n", "i", "t", "i", "e", "s">> ->
                      UNION {normalizeRoomAmenities(vals, o, o2) :
                                o \in orders, o2 \in orders}
                 [] action = <<"m", "e", "r", "g", "e", "_", "i", "m", "a", "g", "e", "_", "a", "r", "r", "a", "y", "s">> ->
                      {mergeObjectArrays(vals, fieldMapping.ObjectArrayFieldMapping,
                                         <<"l", "i", "n", "k">>, o) : o \in orders}
                 [] action = <<"t", "o", "_", "l", "o", "w", "e", "r", "c", "a", "s", "e">> -> {toLowerCase(result)}
                 [] OTHER -> {result}
         IN  UNION {applyActionsFrom(vals, Tail(actions), fieldMapping, r) :
                       r \in next}

applyActions(vals, actions, fieldMapping) ==
    applyActionsFrom(vals, actions, fieldMapping, Nil)

\* the names an action list of the leaf resolver is built from: the four
\* actions and one that is not known
ActionNames ==
    { <<"n","o","r","m","a","l","i","z","e","_","g","e","n","e","r","a","l","_","a","m","e","n","i","t","i","e","s">>,
      <<"n","o","r","m","a","l","i","z","e","_","r","o","o","m","_","a","m","e","n","i","t","i","e","s">>,
      <<"m","e","r","g","e","_","i","m","a","g","e","_","a","r","r","a","y","s">>,
      <<"t","o","_","l","o","w","e","r","c","a","s","e">>,
      <<"r","e","s","i","z","e">> }

MaxActions == 2

\* the value maps applyActions is run on: lists of terms, a scalar, lists of
\* image objects
ActionValueMaps ==
    ValueMaps(AmenityKeys,
              { Arr(<<Str(<<"T","u","b">>), Str(<<"W","i","F","i">>)>>), Arr(<<Str(<<"W","i","F","i">>)>>), Str(<<"g","y","m">>) })
    \cup ValueMaps(AmenityKeys, {Arr(<<i>>) : i \in ImageItems})

\* one call of applyActions with an action list that is not empty; the
\* amenity actions are run on maps without objects only
DoApplyActions ==
    /\ op = "idle"
    /\ values \in ActionValueMaps
    /\ \E acts \in SeqsUpTo(ActionNames, MaxActions) \ {<<>>} :
          /\ (\E i \in 1..Len(acts) : acts[i] \in {<<"n","o","r","m","a","l","i","z","e","_","g","e","n","e","r","a","l","_","a","m","e","n","i","t","i","e","s">>, <<"n","o","r","m","a","l","i","z","e","_","r","o","o","m","_","a","m","e","n","i","t","i","e","s">>})
                => \A k \in DOMAIN values : values[k] \in AmenityInputs
          /\ out' \in applyActions(values, acts,
                                   [SupplierPaths |-> <<>>, Actions |-> acts,
                                    ObjectArrayFieldMapping |-> ImageFieldMapping])
          /\ leafActions' = acts
    /\ op' = "applyActions"
    /\ UNCHANGED <<values, visit, evalVars, engineVars, loadVars, fetchVars, serveVars, mainVars>>

NextLeaf ==
    \/ DoSelectBestValue
    \/ DoMergeImageArrays
    \/ DoNormalizeGeneralAmenities
    \/ DoNormalizeRoomAmenities
    \/ DoApplyActions

SpecLeaf == InitLeaf /\ [][NextLeaf]_vars

\* processLeafMapping: the values a leaf can resolve to for one hotel group
processLeafMapping(mapping, group) ==
    LET fieldMapping == parseFieldMapping(mapping)
        vals == extractValuesFromSuppliers(fieldMapping.SupplierPaths, group)
    IN  IF Len(fieldMapping.Actions) > 0
        THEN applyActions(vals, fieldMapping.Actions, fieldMapping)
        ELSE {selectBestValue(vals, o, o2) :
                 o \in Orders(DOMAIN vals), o2 \in Orders(DOMAIN vals)}

\* setNestedValue below the first test: maps are created along the path; a
\* step that meets a value that is no map gives up
RECURSIVE setNested(_, _, _)
setNested(current, parts, value) ==
    LET part == Head(parts)
    IN  IF Len(parts) = 1
        THEN [k \in DOMAIN current \cup {part} |->
                 IF k = part THEN value ELSE current[k]]
        ELSE LET next == IF part \in DOMAIN current THEN current[part]
                         ELSE Obj(<<>>)
             IN  IF next.t = "obj"
                 THEN [k \in DOMAIN current \cup {part} |->
                          IF k = part
                          THEN Obj(setNested(next.o, Tail(parts), value))
                          ELSE current[k]]
                 ELSE current

setNestedValue(result, path, value) ==
    IF value = Nil \/ path = <<>> THEN result
    ELSE setNested(result, Split(path, "."), value)

\* processMapping: the results the walk can leave in `result`; the children of
\* an inner node are visited in an order the runtime picks
RECURSIVE processMapping(_, _, _, _)
RECURSIVE processChildren(_, _, _, _, _)
processMapping(currentPath, cfg, group, result) ==
    IF cfg.t # "obj" THEN {result}
    ELSE IF isLeafMapping(cfg.o)
         THEN {setNestedValue(result, currentPath, value) :
                  value \in processLeafMapping(cfg.o, group)}
         ELSE UNION {processChildren(currentPath, cfg.o, order, group, {result}) :
                        order \in Orders(DOMAIN cfg.o)}

processChildren(currentPath, mapping, order, group, results) ==
    IF order = <<>> THEN results
    ELSE LET key == Head(order)
             newPath == IF currentPath # <<>>
                        THEN currentPath \o <<".">> \o key ELSE key
         IN  processChildren(currentPath, mapping, Tail(order), group,
                             UNION {processMapping(newPath, mapping[key], group, r) :
                                       r \in results})

\* what encoding/json writes for a value: every slice type becomes an array
RECURSIVE jsonValue(_)
jsonValue(v) ==
    CASE v.t = "strs" -> Arr([i \in 1..Len(v.a) |-> Str(v.a[i])])
      [] v.t = "objs" -> Arr([i \in 1..Len(v.a) |-> jsonValue(Obj(v.a[i]))])
      [] v.t = "arr"  -> Arr([i \in 1..Len(v.a) |-> jsonValue(v.a[i])])
      [] v.t = "obj"  -> Obj([k \in DOMAIN v.o |-> jsonValue(v.o[k])])
      [] OTHER -> v

\* Transform, the loop over the groups in visit order: the sequences of
\* results it can build (processMapping returns no error, no group is skipped)
RECURSIVE transformGroups(_, _, _)
transformGroups(cfg, hotelGroups, order) ==
    IF order = <<>> THEN {<<>>}
    ELSE {<<result>> \o rest :
             result \in processMapping(<<>>, Obj(cfg), hotelGroups[Head(order)], <<>>),
             rest \in transformGroups(cfg, hotelGroups, Tail(order))}

\* json.Marshal(results): a nil slice is written as null
marshalResults(results) ==
    IF results = <<>> THEN Nil
    ELSE Arr([i \in 1..Len(results) |-> jsonValue(Obj(results[i]))])

\* the outcomes of Transform(suppliers): a panic, an error, or the output with
\* the groups it was built from and the order they were visited in
Transform(cfg, supplierData) ==
    UNION {LET grouped == groupHotelsById(cfg, supplierData, supplierOrder)
           IN  IF grouped.err = "panic"
               THEN {[status |-> "panic", err |-> grouped, output |-> Nil,
                      hotelGroups |-> <<>>, hotelIds |-> <<>>]}
               ELSE IF grouped.err # ""
               THEN {[status |-> "error", err |-> grouped, output |-> Nil,
                      hotelGroups |-> <<>>, hotelIds |-> <<>>]}
               ELSE UNION {{[status |-> "ok", err |-> Nil,
                             output |-> marshalResults(results),
                             hotelGroups |-> grouped.hotelGroups,
                             hotelIds |-> groupOrder] :
                               results \in transformGroups(cfg, grouped.hotelGroups,
                                                           groupOrder)} :
                             groupOrder \in Orders(DOMAIN grouped.hotelGroups)} :
             supplierOrder \in Orders(DOMAIN supplierData)}

----------------------------------------------------------------------------
(* Mapping engine: inputs and actions                                      *)

\* the id leaf every mapping document has
IdLeaf == Obj((<<"s", "r", "c", ":", ":", "s", "1">> :> Str(<<"i">>)) @@ (<<"s", "r", "c", ":", ":", "s", "2">> :> Str(<<"j">>)))

\* mapping documents in the shape of the repository's test mappings: the id
\* leaf with a leaf under the default policy, and the id leaf with a nested
\* leaf that has an action
NameMapping ==
    (<<"i", "d">> :> IdLeaf)
    @@ (<<"n", "a", "m", "e">> :> Obj((<<"s", "r", "c", ":", ":", "s", "1">> :> Str(<<"n">>)) @@ (<<"s", "r", "c", ":", ":", "s", "2">> :> Str(<<"n">>))))

AmenityMapping ==
    (<<"i", "d">> :> IdLeaf)
    @@ (<<"a", "m", "e", "n", "i", "t", "i", "e", "s">> :>
          Obj(<<"g", "e", "n", "e", "r", "a", "l">> :>
                Obj((<<"s", "r", "c", ":", ":", "s", "1">> :> Str(<<"f">>)) @@ (<<"s", "r", "c", ":", ":", "s", "2">> :> Str(<<"f">>))
                    @@ (<<"a", "c", "t", "i", "o", "n", "s">> :> Arr(<<Str(<<"n", "o", "r", "m", "a", "l", "i", "z", "e", "_", "g", "e", "n", "e", "r", "a", "l", "_", "a", "m", "e", "n", "i", "t", "i", "e", "s">>)>>)))))

Mappings == {NameMapping, AmenityMapping}

SupplierNames == {<<"s", "1">>, <<"s", "2">>}

MaxRecords == 2

\* records of the first supplier: its id is at "i"
FirstRecords ==
    { Obj((<<"i">> :> Str(<<"h", "1">>)) @@ (<<"n">> :> Str(<<"A">>))
          @@ (<<"f">> :> Arr(<<Str(<<"W", "i", "F", "i">>), Str(<<"p", "o", "o", "l">>)>>))),
      Obj((<<"i">> :> Str(<<"h", "1">>)) @@ (<<"n">> :> Str(<<"B", "b">>))),
      Obj((<<"i">> :> Str(<<"h", "2">>)) @@ (<<"n">> :> Num(7)) @@ (<<"f">> :> Str(<<"g", "y", "m">>))),
      Obj((<<"i">> :> Str(<<>>)) @@ (<<"n">> :> Str(<<"A">>))) }

\* records of the second supplier: its id is at "j"
SecondRecords ==
    { Obj((<<"j">> :> Str(<<"h", "1">>)) @@ (<<"n">> :> Str(<<"C", "c">>)) @@ (<<"f">> :> Arr(<<Str(<<"g", "y", "m">>)>>))),
      Obj(<<"n">> :> Str(<<"A">>)),
      Obj((<<"j">> :> Nil) @@ (<<"n">> :> Str(<<"A">>))),
      Obj((<<"j">> :> Num(1)) @@ (<<"n">> :> Str(<<"A">>))) }

\* a payload that is valid JSON but no array
NotAnArray == Obj(<<"e">> :> Str(<<"A">>))

\* the first supplier sends up to MaxRecords records, none of them twice, the
\* second one at most one; either can send something that is no array
FirstPayloads == {Arr(a) : a \in DistinctSeqsUpTo(FirstRecords, MaxRecords)} \cup {NotAnArray}

SecondPayloads == {Arr(<<>>), NotAnArray} \cup {Arr(<<r>>) : r \in SecondRecords}

\* SupplierData: each supplier is absent or has a payload
SupplierDatas ==
    {sd \in UNION {[names -> FirstPayloads \cup SecondPayloads] :
                      names \in SUBSET SupplierNames} :
        /\ <<"s", "1">> \in DOMAIN sd => sd[<<"s", "1">>] \in FirstPayloads
        /\ <<"s", "2">> \in DOMAIN sd => sd[<<"s", "2">>] \in SecondPayloads}

\* a mapping whose leaves below `detail` are sourced from the second supplier
\* only: one under the default policy, one with an action
SecondOnlyMapping ==
    (<<"i", "d">> :> IdLeaf)
    @@ (<<"d", "e", "t", "a", "i", "l">> :>
          Obj((<<"n", "a", "m", "e">> :> Obj(<<"s", "r", "c", ":", ":", "s", "2">> :> Str(<<"n">>)))
              @@ (<<"g", "e", "n", "e", "r", "a", "l">> :>
                    Obj((<<"s", "r", "c", ":", ":", "s", "2">> :> Str(<<"f">>)) @@ (<<"a", "c", "t", "i", "o", "n", "s">> :> Arr(<<Str(<<"n", "o", "r", "m", "a", "l", "i", "z", "e", "_", "g", "e", "n", "e", "r", "a", "l", "_", "a", "m", "e", "n", "i", "t", "i", "e", "s">>)>>))))))

\* a mapping whose name leaf carries, next to its supplier path, keys that are
\* neither actions nor field_mapping: a plain string and a nested object that
\* has a supplier path of its own
NestedKeyMapping ==
    (<<"i", "d">> :> IdLeaf)
    @@ (<<"n", "a", "m", "e">> :>
          Obj((<<"s", "r", "c", ":", ":", "s", "1">> :> Str(<<"n">>))
              @@ (<<"n", "o", "t", "e">> :> Str(<<"x">>))
              @@ (<<"e", "x", "t", "r", "a">> :> Obj(<<"d", "e", "e", "p">> :> Obj(<<"s", "r", "c", ":", ":", "s", "2">> :> Str(<<"n">>))))))

\* AmenityMapping with an action name that is not known before and after its
\* action
UnknownActionMapping ==
    (<<"i", "d">> :> IdLeaf)
    @@ (<<"a", "m", "e", "n", "i", "t", "i", "e", "s">> :>
          Obj(<<"g", "e", "n", "e", "r", "a", "l">> :>
                Obj((<<"s", "r", "c", ":", ":", "s", "1">> :> Str(<<"f">>)) @@ (<<"s", "r", "c", ":", ":", "s", "2">> :> Str(<<"f">>))
                    @@ (<<"a", "c", "t", "i", "o", "n", "s">> :> Arr(<<Str(<<"r", "e", "s", "i", "z", "e">>), Str(<<"n", "o", "r", "m", "a", "l", "i", "z", "e", "_", "g", "e", "n", "e", "r", "a", "l", "_", "a", "m", "e", "n", "i", "t", "i", "e", "s">>), Str(<<"r", "e", "s", "i", "z", "e">>)>>)))))

\* a mapping whose leaves name the first supplier only, each with a plain
\* dotted path and no action
SoloMapping ==
    (<<"i", "d">> :> Obj(<<"s", "r", "c", ":", ":", "s", "1">> :> Str(<<"i">>)))
    @@ (<<"i", "n", "f", "o">> :>
          Obj((<<"n", "a", "m", "e">> :> Obj(<<"s", "r", "c", ":", ":", "s", "1">> :> Str(<<"n">>)))
              @@ (<<"c", "i", "t", "y">> :> Obj(<<"s", "r", "c", ":", ":", "s", "1">> :> Str(<<"g", ".", "c">>)))))

\* records of the first supplier for SoloMapping: strings with and without
\* surrounding blanks, a blank string, null, a number, an empty array, and a
\* nested path that is there, that is missing, or that runs into a scalar
SoloRecords ==
    { Obj((<<"i">> :> Str(<<"h", "1">>)) @@ (<<"n">> :> Str(<<" ", "a", "b", " ">>))
          @@ (<<"g">> :> Obj(<<"c">> :> Str(<<"x">>)))),
      Obj((<<"i">> :> Str(<<"h", "1">>)) @@ (<<"n">> :> Str(<<" ">>))
          @@ (<<"g">> :> Str(<<"s">>))),
      Obj((<<"i">> :> Str(<<"h", "2">>)) @@ (<<"n">> :> Nil)
          @@ (<<"g">> :> Obj(<<"c">> :> Num(5)))),
      Obj((<<"i">> :> Str(<<"h", "2">>)) @@ (<<"n">> :> Arr(<<>>))
          @@ (<<"g">> :> Obj(<<"c">> :> Str(<<>>)))),
      Obj((<<"i">> :> Str(<<" ", "h", "3">>)) @@ (<<"g">> :> Obj(<<>>))),
      Obj((<<"i">> :> Str(<<"h", "3">>)) @@ (<<"n">> :> Str(<<"C">>))) }

\* supplier data that holds the payload of the first supplier only
SoloSupplierDatas ==
    {<<"s", "1">> :> Arr(records) : records \in DistinctSeqsUpTo(SoloRecords, MaxRecords)}

\* a supplier the mappings do not name
UnmappedSupplier == <<"s", "3">>

\* supplier data of at most one record per supplier, with or without a
\* supplier that the mapping does not name
SmallSupplierDatas ==
    {sd \in UNION {[names -> FirstPayloads \cup SecondPayloads] :
                      names \in SUBSET (SupplierNames \cup {UnmappedSupplier})} :
        /\ <<"s", "1">> \in DOMAIN sd => sd[<<"s", "1">>] \in {p \in FirstPayloads : p.t = "arr" => Len(p.a) <= 1}
        /\ <<"s", "2">> \in DOMAIN sd => sd[<<"s", "2">>] \in SecondPayloads
        /\ <<"s", "3">> \in DOMAIN sd => sd[<<"s", "3">>] \in {Arr(<<>>), NotAnArray}}

NoCall ==
    [status |-> "none", err |-> Nil, output |-> Nil,
     hotelGroups |-> <<>>, hotelIds |-> <<>>]

Init ==
    /\ \/ /\ config \in Mappings
          /\ suppliers \in SupplierDatas
       \/ /\ config \in {SecondOnlyMapping, UnknownActionMapping, NestedKeyMapping}
          /\ suppliers \in SmallSupplierDatas
       \/ /\ config \in {SoloMapping}
          /\ suppliers \in SoloSupplierDatas
    /\ previous = NoCall
    /\ latest = NoCall
    /\ values = <<>>
    /\ op = "unused"
    /\ visit = <<>>
    /\ out = Nil
    /\ leafActions = <<>>
    /\ expression = <<>>
    /\ record = Nil
    /\ extracted = Nil
    /\ evalPc = "unused"
    /\ mappingJSON = Nil
    /\ loaded = Nil
    /\ fetchPc = "unused"
    /\ fetchLog = <<>>
    /\ responses = <<>>
    /\ catalog = Nil
    /\ store = Nil
    /\ request = Nil
    /\ response = Nil
    /\ mainPc = "unused"
    /\ mainLog = <<>>
    /\ exitCode = -1

\* a call of Transform that uses its mapping up: the engine is left with the
\* id leaf only
DoTransformConsuming ==
    /\ \E outcome \in Transform(config, suppliers) :
          /\ latest' = outcome
          /\ previous' = latest
    /\ config' = [key \in DOMAIN config \cap {<<"i", "d">>} |-> config[key]]
    /\ UNCHANGED <<suppliers, leafVars, evalVars, loadVars, fetchVars, serveVars, mainVars>>

\* one call of Transform on the engine with the supplier data
DoTransform ==
    /\ \E outcome \in Transform(config, suppliers) :
          /\ latest' = outcome
          /\ previous' = latest
    /\ UNCHANGED <<config, suppliers, leafVars, evalVars, loadVars, fetchVars, serveVars, mainVars>>

Next == DoTransform

Spec == Init /\ [][Next]_vars

----------------------------------------------------------------------------
(* Mapping document loader                                                 *)

\* bytes that are not valid JSON; any other document is the JSON value the
\* bytes decode to
InvalidJSON == [t |-> "invalid"]

\* json.Unmarshal(mappingJSON, &config) with config a MappingConfig, a map:
\* an object fills the map; null leaves the map nil and is no error; any other
\* value, and bytes that are not JSON, are an error
unmarshalMappingConfig(doc) ==
    CASE doc.t = "obj" -> [err |-> "", config |-> doc.o]
      [] doc.t = "nil" -> [err |-> "", config |-> <<>>]
      [] doc.t = "invalid" -> [err |-> "invalid character", config |-> <<>>]
      [] OTHER -> [err |-> "cannot unmarshal into MappingConfig", config |-> <<>>]

\* NewMappingEngine: an engine holding the decoded map, or the wrapped error
NewMappingEngine(doc) ==
    LET decoded == unmarshalMappingConfig(doc)
    IN  IF decoded.err # ""
        THEN [status |-> "error", err |-> "failed to parse mapping config",
              config |-> <<>>]
        ELSE [status |-> "engine", err |-> "", config |-> decoded.config]

MaxDocItems == 2

\* scalar JSON values of a document
DocScalars ==
    {Nil, Bool(TRUE), Bool(FALSE), Num(0), Num(1), Str(<<>>), Str(<<"a">>)}

\* the documents: invalid bytes, scalars, arrays, objects of scalars under
\* the keys "id" and "x", and the mapping documents of the engine
Documents ==
    {InvalidJSON} \cup DocScalars
    \cup {Arr(a) : a \in SeqsUpTo(DocScalars, MaxDocItems)}
    \cup {Obj(o) : o \in UNION {[ks -> DocScalars] :
                                   ks \in SUBSET {<<"i", "d">>, <<"x">>}}}
    \cup {Obj(m) : m \in Mappings \cup {SecondOnlyMapping}}

NotLoaded == [status |-> "pending", err |-> "", config |-> <<>>]

InitLoad ==
    /\ mappingJSON \in Documents
    /\ loaded = NotLoaded
    /\ config = Nil
    /\ suppliers = <<>>
    /\ previous = Nil
    /\ latest = Nil
    /\ values = <<>>
    /\ op = "unused"
    /\ visit = <<>>
    /\ out = Nil
    /\ leafActions = <<>>
    /\ expression = <<>>
    /\ record = Nil
    /\ extracted = Nil
    /\ evalPc = "unused"
    /\ fetchPc = "unused"
    /\ fetchLog = <<>>
    /\ responses = <<>>
    /\ catalog = Nil
    /\ store = Nil
    /\ request = Nil
    /\ response = Nil
    /\ mainPc = "unused"
    /\ mainLog = <<>>
    /\ exitCode = -1

\* one call of NewMappingEngine on the document; the engine keeps the map
DoNewMappingEngine ==
    /\ loaded.status = "pending"
    /\ loaded' = NewMappingEngine(mappingJSON)
    /\ config' = IF loaded'.status = "engine" THEN loaded'.config ELSE config
    /\ UNCHANGED <<mappingJSON, suppliers, previous, latest, leafVars, evalVars,
                   fetchVars, serveVars, mainVars>>

NextLoad == DoNewMappingEngine

SpecLoad == InitLoad /\ [][NextLoad]_vars

----------------------------------------------------------------------------
(* Properties of Transform                                                 *)

\* the identity of a supplier's record: the string form of the value at the
\* supplier's identity path, the empty string when there is none
IdentityOf(supplierName, item) ==
    LET idField == extractIdFieldMapping(config).idMappings[supplierName]
        hotelId == gjsonGet(item, idField)
    IN  IF hotelId.exists THEN gjsonString(hotelId.value) ELSE <<>>

\* the records of a supplier's payload
ItemsOf(supplierName) == SeqToSet(suppliers[supplierName].a)

\* the distinct identities that are not empty, over all payloads
Identities ==
    {IdentityOf(sn, item) : <<sn, item>> \in
        {p \in UNION {{<<n, it>> : it \in ItemsOf(n)} : n \in DOMAIN suppliers} :
            IdentityOf(p[1], p[2]) # <<>>}}

OutputLen(output) == IF output = Nil THEN 0 ELSE Len(output.a)

\* C1: when Transform succeeds, the output has exactly one merged record for
\* each distinct non-empty identity that occurs in some payload (the groups
\* it is built from are keyed by exactly these identities, each visited
\* once), and every input record a merged record is built from has the
\* non-empty identity of its group
C1_OneRecordPerIdentity ==
    latest.status = "ok" =>
        /\ DOMAIN latest.hotelGroups = Identities
        /\ SeqToSet(latest.hotelIds) = Identities
        /\ Len(latest.hotelIds) = Cardinality(Identities)
        /\ OutputLen(latest.output) = Cardinality(Identities)
        /\ \A h \in DOMAIN latest.hotelGroups :
              \A sn \in DOMAIN latest.hotelGroups[h] :
                  /\ h # <<>>
                  /\ sn \in DOMAIN suppliers
                  /\ latest.hotelGroups[h][sn] \in ItemsOf(sn)
                  /\ IdentityOf(sn, latest.hotelGroups[h][sn]) = h

\* a successful call on payloads where one identity occurs with both
\* suppliers and one record has no identity
C1_Witness ==
    /\ latest.status = "ok"
    /\ DOMAIN suppliers = SupplierNames
    /\ \E h \in Identities :
          \A sn \in SupplierNames : \E it \in ItemsOf(sn) : IdentityOf(sn, it) = h
    /\ \E sn \in SupplierNames : \E it \in ItemsOf(sn) : IdentityOf(sn, it) = <<>>
    /\ OutputLen(latest.output) = 1

\* the number of elements of an array that equal r
Count(a, r) == Cardinality({i \in 1..Len(a) : a[i] = r})

\* two outputs hold the same records when their order is left aside
SameUpToOrder(o1, o2) ==
    IF o1 = Nil \/ o2 = Nil THEN o1 = o2
    ELSE /\ Len(o1.a) = Len(o2.a)
         /\ \A i \in 1..Len(o1.a) : Count(o1.a, o1.a[i]) = Count(o2.a, o1.a[i])

\* C2: two successful Transform calls on the same engine with the same
\* supplier data give outputs that are equal once the order of the top-level
\* array is left aside
C2_DeterministicUpToOrder ==
    (previous.status = "ok" /\ latest.status = "ok") =>
        SameUpToOrder(previous.output, latest.output)

\* the leaf mappings of a mapping tree, each with the output path it is at
RECURSIVE Leaves(_, _)
Leaves(path, node) ==
    IF node.t # "obj" THEN {}
    ELSE IF isLeafMapping(node.o) THEN {[path |-> path, mapping |-> node.o]}
    ELSE UNION {Leaves(path \o <<key>>, node.o[key]) : key \in DOMAIN node.o}

\* the suppliers a leaf mapping is sourced from
SourcesOf(mapping) ==
    {TrimPrefix(key, dataSupplierPrefix) :
        key \in {k \in DOMAIN mapping : HasPrefix(k, dataSupplierPrefix)}}

\* a leaf mapping without the expressions of the suppliers outside `names`
RestrictTo(mapping, names) ==
    [key \in {k \in DOMAIN mapping :
                 HasPrefix(k, dataSupplierPrefix)
                    => TrimPrefix(k, dataSupplierPrefix) \in names} |-> mapping[key]]

\* the suppliers the mapping names (in its id leaf)
MappedSuppliers == DOMAIN extractIdFieldMapping(config).idMappings

\* the suppliers the mapping names that the input does not hold
AbsentSuppliers == MappedSuppliers \ DOMAIN suppliers

\* every payload is an array of a supplier the mapping names
AllPayloadsAccepted ==
    \A sn \in DOMAIN suppliers : sn \in MappedSuppliers /\ suppliers[sn].t = "arr"

\* the value of merged record i at an output path, Nil when it has none
LeafValue(i, path) ==
    LET got == gjsonWalk(latest.output.a[i], path)
    IN  IF got.exists THEN got.value ELSE Nil

LeafPresent(i, path) == gjsonWalk(latest.output.a[i], path).exists

\* the record group merged record i was built from
GroupOf(i) == latest.hotelGroups[latest.hotelIds[i]]

\* C12: when a supplier the mapping names is absent from the input (and the
\* payloads that are there are accepted), Transform succeeds; in every merged
\* record a leaf sourced only from absent suppliers is omitted, and any other
\* leaf is what the leaf without the absent suppliers resolves to.
C12_AbsentSupplierNoError ==
    (latest.status # "none" /\ AbsentSuppliers # {} /\ AllPayloadsAccepted)
        => /\ latest.status = "ok"
           /\ \A i \in 1..OutputLen(latest.output) :
                 \A leaf \in Leaves(<<>>, Obj(config)) :
                    IF SourcesOf(leaf.mapping) \subseteq AbsentSuppliers
                    THEN ~LeafPresent(i, leaf.path)
                    ELSE LeafValue(i, leaf.path) \in
                            {jsonValue(v) :
                                v \in processLeafMapping(
                                         RestrictTo(leaf.mapping, DOMAIN suppliers),
                                         GroupOf(i))}

\* the suppliers of the input whose payload is no array
NonArraySuppliers == {sn \in DOMAIN suppliers : suppliers[sn].t # "arr"}

\* C13 as claimed: when some payload is no array, Transform returns an error
\* that names a supplier whose payload is no array, and no merged records.
C13_ErrorNamesNonArraySupplier ==
    (latest.status # "none" /\ NonArraySuppliers # {})
        => /\ latest.status = "error"
           /\ latest.output = Nil
           /\ latest.err.err = "is not an array"
           /\ latest.err.supplier \in NonArraySuppliers

\* C13, amended: when some payload is no array, Transform returns an error
\* and no merged records; the error names a supplier whose payload is no
\* array, or else a supplier that has an array but no id mapping (one that
\* was visited before any payload that is no array).
C13_NonArrayPayloadFails ==
    (latest.status # "none" /\ NonArraySuppliers # {})
        => /\ latest.status = "error"
           /\ latest.output = Nil
           /\ latest.hotelGroups = <<>>
           /\ \/ /\ latest.err.err = "is not an array"
                 /\ latest.err.supplier \in NonArraySuppliers
              \/ /\ latest.err.err = "no id field mapping"
                 /\ latest.err.supplier \in DOMAIN suppliers \ MappedSuppliers
                 /\ latest.err.supplier \notin NonArraySuppliers

\* one payload is no array, the other supplier has a record with an identity,
\* and the call failed naming the first
C13_Witness ==
    /\ latest.status = "error"
    /\ latest.err.err = "is not an array"
    /\ Cardinality(NonArraySuppliers) = 1
    /\ latest.err.supplier \in NonArraySuppliers
    /\ \E sn \in DOMAIN suppliers \ NonArraySuppliers :
          /\ sn \in MappedSuppliers
          /\ \E item \in ItemsOf(sn) : IdentityOf(sn, item) # <<>>

----------------------------------------------------------------------------
(* Properties of the leaf resolver                                         *)

IsBlankStr(v) == v.t = "str" /\ TrimSpace(v.s) = <<>>

\* the trimmed strings that are not empty among the collected values
Candidates(vals) ==
    {TrimSpace(vals[k].s) : k \in {j \in DOMAIN vals : vals[j].t = "str" /\ ~IsBlankStr(vals[j])}}

\* the items of the lists among the collected values
ListItems(vals) ==
    UNION {SeqToSet(vals[k].a) : k \in {j \in DOMAIN vals : vals[j].t = "arr"}}

\* the canonical names of the vocabulary terms among the items of any list
KnownTerms(vals, amenityMap) ==
    {amenityMap[ToLower(v.s)] :
        v \in {w \in ListItems(vals) : w.t = "str" /\ ToLower(w.s) \in DOMAIN amenityMap}}

NoDuplicates(a) == \A i, j \in 1..Len(a) : a[i] = a[j] => i = j

\* C3: an amenity action returns the canonical form of every vocabulary term
\* found in any supplier's list, whichever supplier is visited first and
\* whether or not some supplier's value is an empty list or no list.
C3_AmenitiesMergeAllSuppliers ==
    /\ op = "normalize_general_amenities"
          => KnownTerms(values, generalAmenity) \subseteq SeqToSet(out.a)
    /\ op = "normalize_room_amenities"
          => KnownTerms(values, roomAmenity) \subseteq SeqToSet(out.a)

\* C4: every element of the array an amenity action returns is a canonical
\* value of its vocabulary, and no element occurs twice.
C4_AmenitiesCanonicalAndUnique ==
    /\ op = "normalize_general_amenities"
          => /\ out.t = "strs"
             /\ SeqToSet(out.a) \subseteq Canonical(generalAmenity)
             /\ NoDuplicates(out.a)
    /\ op = "normalize_room_amenities"
          => /\ out.t = "strs"
             /\ SeqToSet(out.a) \subseteq Canonical(roomAmenity)
             /\ NoDuplicates(out.a)

\* C4's case: two suppliers list the same term in different case, one lists a
\* term no vocabulary knows, and the result holds two canonical names
C4_Witness ==
    /\ op = "normalize_general_amenities"
    /\ Len(out.a) = 2
    /\ {Str(<<"W","i","F","i">>), Str(<<"w","i","f","i">>), Str(<<"s","p","a">>),
        Str(<<"p","o","o","l">>)} \subseteq ListItems(values)

\* C5: a string resolved by the default policy is one of the trimmed non-empty
\* candidates and no candidate has more characters (runes) than it.
C5_LongestByRuneCount ==
    (op = "selectBestValue" /\ out.t = "str")
        => /\ out.s \in Candidates(values)
           /\ \A c \in Candidates(values) : RuneLen(c) <= RuneLen(out.s)

\* C6: whenever any collected value is a non-empty string, the default policy
\* returns a longest trimmed string, whatever the other values are and
\* whichever is visited first.
C6_AnyStringGivesLongestString ==
    (op = "selectBestValue" /\ Candidates(values) # {})
        => /\ out.t = "str"
           /\ out.s \in Candidates(values)
           /\ \A c \in Candidates(values) : ByteLen(c) <= ByteLen(out.s)

\* C7: when the collected values are blank strings and non-strings, at least
\* one of each, the default policy returns one of the non-string values in
\* every visit order; a blank string is never returned.
C7_BlankStringGivesNonString ==
    op = "selectBestValue"
        => /\ ~IsBlankStr(out)
           /\ ( /\ \E k \in DOMAIN values : IsBlankStr(values[k])
                /\ \E k \in DOMAIN values : values[k].t # "str"
                /\ Candidates(values) = {} )
              => /\ out.t # "str"
                 /\ \E k \in DOMAIN values : values[k] = out

\* C7's case: the blank string is visited first and the number is returned
C7_Witness ==
    /\ op = "selectBestValue"
    /\ visit # <<>>
    /\ IsBlankStr(values[visit[1]])
    /\ Candidates(values) = {}
    /\ out.t = "num"

\* the link of an image object after aliasing and trimming: the first of url
\* and link that is a string and not blank; <<>> when neither is
LinkOf(o) ==
    IF <<"u","r","l">> \in DOMAIN o /\ o[<<"u","r","l">>].t = "str" /\ TrimSpace(o[<<"u","r","l">>].s) # <<>>
    THEN TrimSpace(o[<<"u","r","l">>].s)
    ELSE IF <<"l","i","n","k">> \in DOMAIN o /\ o[<<"l","i","n","k">>].t = "str" /\ TrimSpace(o[<<"l","i","n","k">>].s) # <<>>
         THEN TrimSpace(o[<<"l","i","n","k">>].s)
         ELSE <<>>

DistinctLinks(vals) ==
    {LinkOf(v.o) : v \in {w \in ListItems(vals) : w.t = "obj"}} \ {<<>>}

\* C8: in the array merge_image_arrays returns, every object has a non-empty
\* string link, no two objects share a link, and there are as many objects as
\* distinct non-empty links in the suppliers' arrays.
C8_ImageLinksUnique ==
    op = "merge_image_arrays"
        => /\ out.t = "objs"
           /\ \A i \in 1..Len(out.a) :
                 /\ <<"l","i","n","k">> \in DOMAIN out.a[i]
                 /\ out.a[i][<<"l","i","n","k">>].t = "str"
                 /\ out.a[i][<<"l","i","n","k">>].s # <<>>
           /\ \A i, j \in 1..Len(out.a) :
                 out.a[i][<<"l","i","n","k">>] = out.a[j][<<"l","i","n","k">>] => i = j
           /\ Len(out.a) = Cardinality(DistinctLinks(values))

\* C8's case: both suppliers list the same link, one under url and one under
\* link with surrounding blanks, and a second link exists
C8_Witness ==
    /\ op = "merge_image_arrays"
    /\ Len(out.a) = 2
    /\ \A k \in AmenityKeys : k \in DOMAIN values /\ values[k].t = "arr"
    /\ \E i \in 1..Len(values["src::s1"].a), j \in 1..Len(values["src::s2"].a) :
          /\ <<"u","r","l">> \in DOMAIN values["src::s1"].a[i].o
          /\ <<"u","r","l">> \notin DOMAIN values["src::s2"].a[j].o
          /\ LinkOf(values["src::s1"].a[i].o) = LinkOf(values["src::s2"].a[j].o)
          /\ LinkOf(values["src::s1"].a[i].o) # <<>>

\* the normalized objects that have a link, in the order they are visited:
\* the suppliers in visit order, each array in document order
RECURSIVE Visited(_, _)
Visited(vals, order) ==
    IF order = <<>> THEN <<>>
    ELSE LET v == vals[Head(order)]
             objs == IF v.t = "arr"
                     THEN SelectSeq(v.a, LAMBDA w : w.t = "obj" /\ LinkOf(w.o) # <<>>)
                     ELSE <<>>
         IN  [i \in 1..Len(objs) |-> normalizeObject(objs[i].o, ImageFieldMapping)]
                \o Visited(vals, Tail(order))

\* the position in `flat` of the first object with this link
FirstPos(flat, link) ==
    CHOOSE j \in 1..Len(flat) :
        /\ flat[j][<<"l","i","n","k">>] = link
        /\ \A h \in 1..(j - 1) : flat[h][<<"l","i","n","k">>] # link

\* C9: the object kept for a link is the first one visited with that link
\* (so it carries that occurrence's description), and the kept objects are in
\* the order of their first occurrences.
C9_FirstVisitedWins ==
    op = "merge_image_arrays"
        => LET flat == Visited(values, visit)
           IN  /\ \A i \in 1..Len(out.a) :
                     /\ \E j \in 1..Len(flat) : flat[j][<<"l","i","n","k">>] = out.a[i][<<"l","i","n","k">>]
                     /\ out.a[i] = flat[FirstPos(flat, out.a[i][<<"l","i","n","k">>])]
               /\ \A i, j \in 1..Len(out.a) :
                     i < j => FirstPos(flat, out.a[i][<<"l","i","n","k">>]) < FirstPos(flat, out.a[j][<<"l","i","n","k">>])

\* C9's case: a link occurs in both suppliers' arrays with different
\* descriptions, and twice in the array visited first
C9_Witness ==
    /\ op = "merge_image_arrays"
    /\ Len(visit) = 2
    /\ LET flat == Visited(values, visit)
           first == values[visit[1]]
       IN  /\ first.t = "arr" /\ Len(first.a) = 2
           /\ Len(flat) >= 3
           /\ flat[1][<<"l","i","n","k">>] = flat[2][<<"l","i","n","k">>]
           /\ flat[1][<<"l","i","n","k">>] = flat[3][<<"l","i","n","k">>]
           /\ <<"d","e","s","c","r","i","p","t","i","o","n">> \in DOMAIN flat[1]
           /\ \A h \in 2..3 : <<"d","e","s","c","r","i","p","t","i","o","n">> \in DOMAIN flat[h]
                                 /\ flat[h][<<"d","e","s","c","r","i","p","t","i","o","n">>] # flat[1][<<"d","e","s","c","r","i","p","t","i","o","n">>]
           /\ out.a[1] = flat[1]

----------------------------------------------------------------------------
(* Properties of the evaluator                                             *)

\* C10: for every expression isTemplate accepts and every record, the string
\* extractValue returns contains neither "{{" nor "}}".
C10_NoBracesInOutput ==
    (evalPc = "done" /\ isTemplate(expression))
        => /\ extracted.t = "str"
           /\ ~Contains(extracted.s, <<"{", "{">>)
           /\ ~Contains(extracted.s, <<"}", "}">>)

\* a separator of placeholders: one comma with optional whitespace around it
IsSeparator(s) == TrimSpace(s) = <<",">>

\* the template is the placeholders `matches`, one after the other, with a
\* separator between two of them and nothing else
RECURSIVE IsCommaSeparated(_, _)
IsCommaSeparated(template, matches) ==
    /\ matches # <<>>
    /\ HasPrefix(template, Head(matches)[1])
    /\ LET rest == TrimPrefix(template, Head(matches)[1])
       IN  IF Tail(matches) = <<>> THEN rest = <<>>
           ELSE \E k \in 1..Len(rest) :
                   /\ IsSeparator(SubSeq(rest, 1, k))
                   /\ IsCommaSeparated(SubSeq(rest, k + 1, Len(rest)), Tail(matches))

\* what a placeholder resolves to: the trimmed string form of the field, the
\* empty string when the field is absent
Resolved(supplierData, fieldName) ==
    LET value == gjsonGet(supplierData, fieldName)
    IN  IF value.exists THEN TrimSpace(gjsonString(value.value)) ELSE <<>>

\* the non-empty resolved values of the placeholders, joined by ", "
RECURSIVE JoinNonEmpty(_, _)
JoinNonEmpty(supplierData, matches) ==
    IF matches = <<>> THEN <<>>
    ELSE LET v == Resolved(supplierData, Head(matches)[2])
             rest == JoinNonEmpty(supplierData, Tail(matches))
         IN  IF v = <<>> THEN rest
             ELSE IF rest = <<>> THEN v
             ELSE v \o <<",", " ">> \o rest

\* C11: for a template of placeholders separated by commas with optional
\* whitespace, whose values hold no comma and no brace, the string returned
\* is the non-empty values joined by ", ", whichever placeholders resolve to
\* empty or absent.
C11_TemplateCleanup ==
    LET matches == FindAllPlaceholders(expression, 1)
    IN  (/\ evalPc = "done"
         /\ IsCommaSeparated(expression, matches)
         /\ \A i \in 1..Len(matches) :
               LET v == Resolved(record, matches[i][2])
               IN  \A j \in 1..Len(v) : v[j] \notin {",", "{", "}"})
            => extracted = Str(JoinNonEmpty(record, matches))

----------------------------------------------------------------------------
(* Properties of the loader                                                *)

\* C14: NewMappingEngine returns an error and no engine exactly when the
\* document is not valid JSON or its top-level value is not an object; for
\* every top-level object it returns an engine.
C14_ErrorIffNotObject ==
    loaded.status # "pending" =>
        ((loaded.status = "error") <=> (mappingJSON.t # "obj"))

----------------------------------------------------------------------------
(* Properties of the action list                                           *)

\* the first n actions of a list
Prefix(actions, n) == SubSeq(actions, 1, n)

LeafParams(actions) ==
    [SupplierPaths |-> <<>>, Actions |-> actions,
     ObjectArrayFieldMapping |-> ImageFieldMapping]

\* the value maps the amenity actions of a list can be run on
RunnableOn(actions) ==
    IF \E i \in 1..Len(actions) : actions[i] \in {<<"n","o","r","m","a","l","i","z","e","_","g","e","n","e","r","a","l","_","a","m","e","n","i","t","i","e","s">>, <<"n","o","r","m","a","l","i","z","e","_","r","o","o","m","_","a","m","e","n","i","t","i","e","s">>}
    THEN {v \in ActionValueMaps : \A k \in DOMAIN v : v[k] \in AmenityInputs}
    ELSE ActionValueMaps

\* C15: the actions are a pipeline: an action after the first is fed the
\* output of the action before it and never the value map again, so two
\* value maps that give the same output after the first n actions give the
\* same output after the first n+1, for every list built from the four
\* actions.
C15_ActionsArePipeline ==
    (/\ op = "applyActions"
     /\ \A i \in 1..Len(leafActions) : leafActions[i] # <<"r","e","s","i","z","e">>)
    => \A n \in 1..(Len(leafActions) - 1) :
         \A other \in RunnableOn(leafActions) :
           applyActions(other, Prefix(leafActions, n), LeafParams(leafActions))
              = applyActions(values, Prefix(leafActions, n), LeafParams(leafActions))
           => applyActions(other, Prefix(leafActions, n + 1), LeafParams(leafActions))
                 = applyActions(values, Prefix(leafActions, n + 1), LeafParams(leafActions))

----------------------------------------------------------------------------
(* Properties of Transform: actions and leaves                             *)

\* the list of general amenities of merged record i
GeneralAmenitiesOf(i) ==
    LeafValue(i, <<<<"a", "m", "e", "n", "i", "t", "i", "e", "s">>, <<"g", "e", "n", "e", "r", "a", "l">>>>)

\* C16: an action name that is not known changes nothing and ends nothing:
\* Transform under a mapping whose action list holds such names returns what
\* it returns under the same mapping without them (the same error, or the same
\* merged records of the same groups, each leaf with the later actions
\* applied).
C16_UnknownActionIsNoOp ==
    (latest.status # "none" /\ config = UnknownActionMapping)
        => latest \in Transform(AmenityMapping, suppliers)

C16_Witness ==
    /\ config = UnknownActionMapping
    /\ latest.status = "ok"
    /\ OutputLen(latest.output) = 2
    /\ \E i \in 1..2 : /\ GeneralAmenitiesOf(i).t = "arr"
                       /\ Len(GeneralAmenitiesOf(i).a) > 0

\* the amenity-normalization actions
AmenityActions ==
    { <<"n", "o", "r", "m", "a", "l", "i", "z", "e", "_", "g", "e", "n", "e", "r", "a", "l", "_", "a", "m", "e", "n", "i", "t", "i", "e", "s">>,
      <<"n", "o", "r", "m", "a", "l", "i", "z", "e", "_", "r", "o", "o", "m", "_", "a", "m", "e", "n", "i", "t", "i", "e", "s">> }

\* a leaf is malformed for a record group when it has an amenity action and a
\* supplier of the group gives it a value that is no array
MalformedFor(mapping, group) ==
    LET fieldMapping == parseFieldMapping(mapping)
        vals == extractValuesFromSuppliers(fieldMapping.SupplierPaths, group)
    IN  /\ \E n \in 1..Len(fieldMapping.Actions) :
              fieldMapping.Actions[n] \in AmenityActions
        /\ \E k \in DOMAIN vals : vals[k].t # "arr"

\* the record groups with a malformed leaf
MalformedGroups ==
    {hotelId \in DOMAIN latest.hotelGroups :
        \E leaf \in Leaves(<<>>, Obj(config)) :
            MalformedFor(leaf.mapping, latest.hotelGroups[hotelId])}

\* the record groups a merged record was emitted for
EmittedGroups == {latest.hotelIds[i] : i \in 1..OutputLen(latest.output)}

\* C17: when Transform has grouped the records and some group has a malformed
\* leaf, Transform succeeds, the groups with a malformed leaf yield no merged
\* record and every other group yields one.
C17_MalformedGroupSkipped ==
    (latest.status \in {"ok", "error"} /\ MalformedGroups # {})
        => /\ latest.status = "ok"
           /\ EmittedGroups = DOMAIN latest.hotelGroups \ MalformedGroups

\* the values the claim calls null or empty
EmptyValues == {Nil, Str(<<>>), Arr(<<>>)}

\* C18: no leaf of a merged record holds null, an empty string or an empty
\* array, whether it was resolved by the default policy or by actions.
C18_NoEmptyLeaf ==
    latest.status = "ok"
        => \A i \in 1..OutputLen(latest.output) :
              \A leaf \in Leaves(<<>>, Obj(config)) :
                 LeafPresent(i, leaf.path) => LeafValue(i, leaf.path) \notin EmptyValues

\* the one supplier of SoloMapping and its key in a leaf
SoloSupplier == <<"s", "1">>

SoloKey == dataSupplierPrefix \o SoloSupplier

\* what extracting the path of a leaf directly from the record of the group
\* gives
DirectValue(i, leaf) == extractValue(GroupOf(i)[SoloSupplier], leaf.mapping[SoloKey])

\* a string without its surrounding white space, any other value as it is
Trimmed(v) == IF v.t = "str" THEN Str(TrimSpace(v.s)) ELSE v

----------------------------------------------------------------------------
(* Supplier fetch and catalog                                              *)

\* GetSuppliers: the suppliers, in the order they are fetched
GetSuppliers == <<<<"a", "c", "m", "e">>, <<"p", "a", "t", "a", "g", "o", "n", "i", "a">>, <<"p", "a", "p", "e", "r", "f", "l", "i", "e", "s">>>>

\* the mapping document of the engine FetchAndNormalize is given: the id and
\* the name of a hotel, from each of the three suppliers
FetchMapping ==
    (<<"i", "d">> :>
        Obj((<<"s", "r", "c", ":", ":", "a", "c", "m", "e">> :> Str(<<"I", "d">>))
            @@ (<<"s", "r", "c", ":", ":", "p", "a", "t", "a", "g", "o", "n", "i", "a">> :> Str(<<"i", "d">>))
            @@ (<<"s", "r", "c", ":", ":", "p", "a", "p", "e", "r", "f", "l", "i", "e", "s">> :> Str(<<"h", "o", "t", "e", "l", "_", "i", "d">>))))
    @@ (<<"n", "a", "m", "e">> :>
          Obj((<<"s", "r", "c", ":", ":", "a", "c", "m", "e">> :> Str(<<"N", "a", "m", "e">>))
              @@ (<<"s", "r", "c", ":", ":", "p", "a", "t", "a", "g", "o", "n", "i", "a">> :> Str(<<"n", "a", "m", "e">>))
              @@ (<<"s", "r", "c", ":", ":", "p", "a", "p", "e", "r", "f", "l", "i", "e", "s">> :> Str(<<"h", "o", "t", "e", "l", "_", "n", "a", "m", "e">>))))

\* the bodies a supplier can answer with: arrays of its records (one with a
\* number for its id) and a document that is no array
FetchBodies ==
    (<<"a", "c", "m", "e">> :>
        { Arr(<<Obj((<<"I", "d">> :> Str(<<"h", "1">>)) @@ (<<"N", "a", "m", "e">> :> Str(<<"A">>)))>>),
          Arr(<<>>) })
    @@ (<<"p", "a", "t", "a", "g", "o", "n", "i", "a">> :>
        { Arr(<<Obj((<<"i", "d">> :> Str(<<"h", "1">>)) @@ (<<"n", "a", "m", "e">> :> Str(<<"B", "b">>))),
                Obj((<<"i", "d">> :> Str(<<"h", "2">>)) @@ (<<"n", "a", "m", "e">> :> Str(<<"C">>)))>>),
          NotAnArray })
    @@ (<<"p", "a", "p", "e", "r", "f", "l", "i", "e", "s">> :>
        { Arr(<<Obj((<<"h", "o", "t", "e", "l", "_", "i", "d">> :> Str(<<"h", "2">>)) @@ (<<"h", "o", "t", "e", "l", "_", "n", "a", "m", "e">> :> Str(<<"D">>)))>>),
          Arr(<<Obj((<<"h", "o", "t", "e", "l", "_", "i", "d">> :> Num(7)) @@ (<<"h", "o", "t", "e", "l", "_", "n", "a", "m", "e">> :> Str(<<"D">>)))>>) })

StatusOK == 200

StatusCodes == {StatusOK, 404, 500}

\* what a GET of a supplier's URL can come to: no response, a response whose
\* body cannot be read, or a response with a status and a body
Answers(name) ==
    {[kind |-> "getError", code |-> 0, body |-> Nil],
     [kind |-> "readError", code |-> StatusOK, body |-> Nil]}
    \cup {[kind |-> "response", code |-> c, body |-> b] :
             c \in StatusCodes, b \in FetchBodies[name]}

\* fetchSupplierData that returns the body whatever the status is
fetchSupplierDataAnyStatus(answer) ==
    CASE answer.kind = "getError" -> [err |-> "error making GET request", body |-> Nil]
      [] answer.kind = "readError" -> [err |-> "error reading response body", body |-> Nil]
      [] OTHER -> [err |-> "", body |-> answer.body]

\* fetchSupplierData: the body of a response with status 200, an error for
\* anything else
fetchSupplierData(answer) ==
    CASE answer.kind = "getError" -> [err |-> "error making GET request", body |-> Nil]
      [] answer.kind = "readError" -> [err |-> "error reading response body", body |-> Nil]
      [] answer.code # StatusOK -> [err |-> "failed to fetch", body |-> Nil]
      [] OTHER -> [err |-> "", body |-> answer.body]

\* the fields of Hotel that are strings
HotelStringFields == {<<"i", "d">>, <<"n", "a", "m", "e">>}

\* json.Unmarshal of one element into a Hotel with the fields the mapping
\* writes: a string field takes a string, is left empty by null or a missing
\* key, and anything else is an error
hotelFieldOK(object, field) ==
    field \in DOMAIN object => object[field].t \in {"str", "nil"}

hotelField(object, field) ==
    IF field \in DOMAIN object /\ object[field].t = "str" THEN object[field].s
    ELSE <<>>

\* json.Unmarshal of destination_id into an int field: a number, or null or a
\* missing key, which leave it zero
hotelIntFieldOK(object, field) ==
    field \in DOMAIN object => object[field].t \in {"num", "nil"}

hotelIntField(object, field) ==
    IF field \in DOMAIN object /\ object[field].t = "num" THEN object[field].n
    ELSE 0

\* json.Unmarshal(normalizedData, &hotels): null leaves the slice nil
unmarshalHotels(normalizedData) ==
    IF normalizedData = Nil THEN [err |-> "", hotels |-> <<>>]
    ELSE IF \E i \in 1..Len(normalizedData.a) :
               \/ \E field \in HotelStringFields :
                     ~hotelFieldOK(normalizedData.a[i].o, field)
               \/ ~hotelIntFieldOK(normalizedData.a[i].o, <<"d", "e", "s", "t", "i", "n", "a", "t", "i", "o", "n", "_", "i", "d">>)
         THEN [err |-> "cannot unmarshal", hotels |-> <<>>]
         ELSE [err |-> "",
               hotels |-> [i \in 1..Len(normalizedData.a) |->
                             [Id |-> hotelField(normalizedData.a[i].o, <<"i", "d">>),
                              DestinationId |-> hotelIntField(normalizedData.a[i].o, <<"d", "e", "s", "t", "i", "n", "a", "t", "i", "o", "n", "_", "i", "d">>),
                              Name |-> hotelField(normalizedData.a[i].o, <<"n", "a", "m", "e">>)]]]

\* deduplicateHotels: the outcomes, each with the outcome of Transform it
\* comes from
deduplicateHotels(hotelsList, cfg) ==
    {IF transformed.status = "panic"
     THEN [status |-> "panic", err |-> "", hotels |-> <<>>, transformed |-> transformed]
     ELSE IF transformed.status = "error"
     THEN [status |-> "error", err |-> "error transforming data", hotels |-> <<>>,
           transformed |-> transformed]
     ELSE LET decoded == unmarshalHotels(transformed.output)
          IN  IF decoded.err # ""
              THEN [status |-> "error", err |-> "error unmarshaling normalized data",
                    hotels |-> <<>>, transformed |-> transformed]
              ELSE [status |-> "ok", err |-> "", hotels |-> decoded.hotels,
                    transformed |-> transformed] :
        transformed \in Transform(cfg, hotelsList)}

NoCatalog == [status |-> "pending", err |-> "", hotels |-> <<>>, transformed |-> NoCall]

InitFetch ==
    /\ fetchPc = "fetching"
    /\ fetchLog = <<>>
    /\ responses = <<>>
    /\ catalog = NoCatalog
    /\ store = Nil
    /\ request = Nil
    /\ response = Nil
    /\ mainPc = "unused"
    /\ mainLog = <<>>
    /\ exitCode = -1
    /\ config = FetchMapping
    /\ suppliers = <<>>
    /\ previous = NoCall
    /\ latest = NoCall
    /\ values = <<>>
    /\ op = "unused"
    /\ visit = <<>>
    /\ out = Nil
    /\ leafActions = <<>>
    /\ expression = <<>>
    /\ record = Nil
    /\ extracted = Nil
    /\ evalPc = "unused"
    /\ mappingJSON = Nil
    /\ loaded = Nil

\* one turn of the loop of FetchAndNormalize: the next supplier is fetched and
\* its body kept unless fetchSupplierData returns an error
DoFetchSupplier ==
    /\ fetchPc = "fetching"
    /\ Len(fetchLog) < Len(GetSuppliers)
    /\ LET supplier == GetSuppliers[Len(fetchLog) + 1]
       IN  \E answer \in Answers(supplier) :
              LET fetched == fetchSupplierData(answer)
              IN  /\ fetchLog' = Append(fetchLog, answer)
                  /\ responses' =
                        IF fetched.err # "" THEN responses
                        ELSE [name \in DOMAIN responses \cup {supplier} |->
                                 IF name = supplier THEN fetched.body
                                 ELSE responses[name]]
    /\ UNCHANGED <<fetchPc, catalog, engineVars, leafVars, evalVars, loadVars,
                   serveVars, mainVars>>

\* the end of FetchAndNormalize: deduplicateHotels on the responses; the
\* argument and the outcome of its call of Transform are kept
DoDeduplicateHotels ==
    /\ fetchPc = "fetching"
    /\ Len(fetchLog) = Len(GetSuppliers)
    /\ \E outcome \in deduplicateHotels(responses, config) :
          /\ catalog' = outcome
          /\ latest' = outcome.transformed
    /\ suppliers' = responses
    /\ fetchPc' = "done"
    /\ UNCHANGED <<fetchLog, responses, config, previous, leafVars, evalVars, loadVars,
                   serveVars, mainVars>>

NextFetch ==
    \/ DoFetchSupplier
    \/ DoDeduplicateHotels

SpecFetch == InitFetch /\ [][NextFetch]_vars

----------------------------------------------------------------------------
(* Properties of the supplier fetch                                        *)

\* the turns of the loop whose fetch did not fail
FetchedTurns ==
    {i \in 1..Len(fetchLog) :
        fetchLog[i].kind = "response" /\ fetchLog[i].code = StatusOK}

FailedTurns == (1..Len(fetchLog)) \ FetchedTurns

\* the payloads of the suppliers that were fetched, by supplier name
FetchedPayloads ==
    [name \in {GetSuppliers[i] : i \in FetchedTurns} |->
        fetchLog[CHOOSE i \in FetchedTurns : GetSuppliers[i] = name].body]

\* every fetched payload is an array of records whose id is a string
FetchedWellFormed ==
    \A i \in FetchedTurns :
        /\ fetchLog[i].body.t = "arr"
        /\ \A k \in 1..Len(fetchLog[i].body.a) :
              extractValue(fetchLog[i].body.a[k],
                           FetchMapping[<<"i", "d">>].o[dataSupplierPrefix \o GetSuppliers[i]]).t = "str"

\* the ids of the records of the fetched payloads
FetchedIds ==
    UNION {{extractValue(fetchLog[i].body.a[k],
                         FetchMapping[<<"i", "d">>].o[dataSupplierPrefix \o GetSuppliers[i]]).s :
               k \in 1..Len(fetchLog[i].body.a)} : i \in FetchedTurns}

\* C20: whichever fetches fail, Transform is called with exactly the payloads
\* of the suppliers that were fetched and FetchAndNormalize returns what
\* merging these payloads gives; when they are arrays of records with string
\* ids this is, without error, the catalog of their hotels (empty when every
\* fetch failed).
C20_FetchFailuresIsolated ==
    fetchPc = "done"
        => /\ suppliers = FetchedPayloads
           /\ catalog \in deduplicateHotels(FetchedPayloads, config)
           /\ FetchedWellFormed
                 => /\ catalog.status = "ok"
                    /\ {catalog.hotels[i].Id : i \in 1..Len(catalog.hotels)} = FetchedIds

\* a call where one fetch got no response, one a status that is not 200, and
\* the catalog has the hotel of the third
C20_Witness ==
    /\ fetchPc = "done"
    /\ \E i \in FailedTurns : fetchLog[i].kind = "getError"
    /\ \E i \in FailedTurns : fetchLog[i].kind = "response" /\ fetchLog[i].body.t = "arr"
    /\ FetchedTurns # {}
    /\ catalog.status = "ok"
    /\ Len(catalog.hotels) = 1

----------------------------------------------------------------------------
(* Hotel store and HTTP handlers                                           *)

\* a value of type Hotels: a slice is nil or holds its items
NilHotels == [isNil |-> TRUE, items |-> <<>>]

HotelsOf(items) == [isNil |-> FALSE, items |-> items]

\* strconv.Itoa for the destination ids of the model, which are not negative
Itoa(n) == FormatNat(n)

\* the value of a string of decimal digits
RECURSIVE DigitsValue(_, _)
DigitsValue(s, acc) ==
    IF s = <<>> THEN acc
    ELSE DigitsValue(Tail(s),
                     acc * 10 + ((CHOOSE d \in 1..10 : digitChars[d] = Head(s)) - 1))

\* strconv.Atoi: an optional sign and at least one decimal digit, nothing else
Atoi(s) ==
    LET signed == s # <<>> /\ Head(s) \in {"+", "-"}
        digits == IF signed THEN Tail(s) ELSE s
    IN  IF digits = <<>> \/ \E i \in 1..Len(digits) : digits[i] \notin SeqToSet(digitChars)
        THEN [err |-> "invalid syntax", n |-> 0]
        ELSE [err |-> "",
              n |-> IF signed /\ Head(s) = "-" THEN 0 - DigitsValue(digits, 0)
                    ELSE DigitsValue(digits, 0)]

\* slices.Contains
sliceContains(list, item) == \E i \in 1..Len(list) : list[i] = item

\* HotelStore.GetAll
GetAll(hotels) == hotels

\* HotelStore.FilterById: the first hotel with the id, in a slice that is not nil
RECURSIVE firstById(_, _)
firstById(items, id) ==
    IF items = <<>> THEN HotelsOf(<<>>)
    ELSE IF Head(items).Id = id THEN HotelsOf(<<Head(items)>>)
    ELSE firstById(Tail(items), id)

FilterById(hotels, id) == firstById(hotels.items, id)

\* HotelStore.FilterByDestination: every hotel of the destination; nil when
\* there is none
RECURSIVE appendByDestination(_, _, _)
appendByDestination(items, destinationId, result) ==
    IF items = <<>> THEN result
    ELSE appendByDestination(
            Tail(items), destinationId,
            IF Head(items).DestinationId = destinationId
            THEN HotelsOf(Append(result.items, Head(items)))
            ELSE result)

FilterByDestination(hotels, destinationId) ==
    appendByDestination(hotels.items, destinationId, NilHotels)

\* FilterByIds that returns at the first hotel it finds
RECURSIVE appendByIdsFirstOnly(_, _, _)
appendByIdsFirstOnly(items, idsArr, result) ==
    IF items = <<>> THEN result
    ELSE IF sliceContains(idsArr, TrimSpace(Head(items).Id))
         THEN HotelsOf(Append(result.items, Head(items)))
         ELSE appendByIdsFirstOnly(Tail(items), idsArr, result)

\* HotelStore.FilterByIds, the loop: a hotel is kept when its trimmed id is an
\* item of the list as it was split
RECURSIVE appendByIds(_, _, _)
appendByIds(items, idsArr, result) ==
    IF items = <<>> THEN result
    ELSE appendByIds(Tail(items), idsArr,
                     IF sliceContains(idsArr, TrimSpace(Head(items).Id))
                     THEN HotelsOf(Append(result.items, Head(items)))
                     ELSE result)

FilterByIds(hotels, ids) == appendByIds(hotels.items, Split(ids, ","), NilHotels)

\* FilterByDestinations that returns at the first hotel it finds
RECURSIVE appendByDestinationsFirstOnly(_, _, _)
appendByDestinationsFirstOnly(items, destinationIdsArr, result) ==
    IF items = <<>> THEN result
    ELSE IF sliceContains(destinationIdsArr, TrimSpace(Itoa(Head(items).DestinationId)))
         THEN HotelsOf(Append(result.items, Head(items)))
         ELSE appendByDestinationsFirstOnly(Tail(items), destinationIdsArr, result)

\* HotelStore.FilterByDestinations, the loop: a hotel is kept when the decimal
\* form of its destination id is an item of the list as it was split
RECURSIVE appendByDestinations(_, _, _)
appendByDestinations(items, destinationIdsArr, result) ==
    IF items = <<>> THEN result
    ELSE appendByDestinations(
            Tail(items), destinationIdsArr,
            IF sliceContains(destinationIdsArr, TrimSpace(Itoa(Head(items).DestinationId)))
            THEN HotelsOf(Append(result.items, Head(items)))
            ELSE result)

FilterByDestinations(hotels, destinationIds) ==
    appendByDestinations(hotels.items, Split(destinationIds, ","), NilHotels)

\* json.NewEncoder(w).Encode(result): null for a nil slice, else the array
encodeHotels(hotels) ==
    IF hotels.isNil THEN Nil
    ELSE Arr([i \in 1..Len(hotels.items) |->
                Obj((<<"i", "d">> :> Str(hotels.items[i].Id))
                    @@ (<<"d", "e", "s", "t", "i", "n", "a", "t", "i", "o", "n", "_", "i", "d">> :> Num(hotels.items[i].DestinationId))
                    @@ (<<"n", "a", "m", "e">> :> Str(hotels.items[i].Name)))])

StatusBadRequest == 400

\* what a handler wrote, with the calls it made on the store
jsonResponse(hotels, calls) ==
    [status |-> StatusOK, contentType |-> "application/json",
     body |-> encodeHotels(hotels), result |-> hotels, calls |-> calls]

errorResponse(message) ==
    [status |-> StatusBadRequest, contentType |-> "text/plain; charset=utf-8",
     body |-> Str(message), result |-> NilHotels, calls |-> <<>>]

\* handleGetAllHotels
handleGetAllHotels(hotels) == jsonResponse(GetAll(hotels), <<"GetAll">>)

\* handleQueryHotels that filters by id when both parameters are given
handleQueryHotelsIdFirst(hotels, id, destinationId) ==
    IF id = <<>> /\ destinationId = <<>> THEN handleGetAllHotels(hotels)
    ELSE IF id # <<>> THEN jsonResponse(FilterById(hotels, id), <<"FilterById">>)
    ELSE LET destIdInt == Atoi(destinationId)
         IN  IF destIdInt.err # "" THEN errorResponse(<<"I", "n", "v", "a", "l", "i", "d", " ", "d", "e", "s", "t", "i", "n", "a", "t", "i", "o", "n", "_", "i", "d">>)
             ELSE jsonResponse(FilterByDestination(hotels, destIdInt.n),
                               <<"FilterByDestination">>)

\* handleQueryHotels on the values of the `id` and `destination_id` parameters
\* (empty when the parameter is missing)
handleQueryHotels(hotels, id, destinationId) ==
    IF id = <<>> /\ destinationId = <<>> THEN handleGetAllHotels(hotels)
    ELSE IF id # <<>> /\ destinationId # <<>>
    THEN errorResponse(<<"O", "n", "l", "y", " ", "o", "n", "e", " ", "q", "u", "e", "r", "y", " ", "p", "a", "r", "a", "m", "e", "t", "e", "r", " ", "(", "i", "d", " ", "o", "r", " ", "d", "e", "s", "t", "i", "n", "a", "t", "i", "o", "n", "_", "i", "d", ")", " ", "c", "a", "n", " ", "b", "e", " ", "p", "r", "o", "v", "i", "d", "e", "d", " ", "a", "t", " ", "a", " ", "t", "i", "m", "e">>)
    ELSE IF id # <<>> THEN jsonResponse(FilterById(hotels, id), <<"FilterById">>)
    ELSE LET destIdInt == Atoi(destinationId)
         IN  IF destIdInt.err # "" THEN errorResponse(<<"I", "n", "v", "a", "l", "i", "d", " ", "d", "e", "s", "t", "i", "n", "a", "t", "i", "o", "n", "_", "i", "d">>)
             ELSE jsonResponse(FilterByDestination(hotels, destIdInt.n),
                               <<"FilterByDestination">>)

MaxHotels == 3

\* the hotels a store can hold: ids as the default policy writes them (no
\* surrounding white space, empty when the leaf was left out), two hotels of
\* one destination, two with one id
StoredHotels ==
    { [Id |-> <<"h", "1">>, DestinationId |-> 1, Name |-> <<"A">>],
      [Id |-> <<"h", "2">>, DestinationId |-> 1, Name |-> <<"B", "b">>],
      [Id |-> <<"h", "2">>, DestinationId |-> 12, Name |-> <<"C">>],
      [Id |-> <<>>, DestinationId |-> 0, Name |-> <<"D">>] }

\* the stores: the nil slice main sets for an empty catalog, or up to MaxHotels
\* hotels
Stores ==
    {NilHotels} \cup {HotelsOf(items) : items \in SeqsUpTo(StoredHotels, MaxHotels) \ {<<>>}}

\* values of the `id` parameter, and of the list handed to FilterByIds
IdParams == {<<>>, <<"h", "1">>, <<"h", "2">>, <<"h", "9">>, <<"h", "1", ",", "h", "2">>, <<"h", "2", ",", " ", "h", "1">>, <<",", "h", "9">>}

\* values of the `destination_id` parameter, and of the list handed to
\* FilterByDestinations
DestinationParams == {<<>>, <<"1">>, <<"1", "2">>, <<"7">>, <<"1", ",", "1", "2">>, <<"1", "2", ",", " ", "1">>, <<"+", "1">>, <<"x">>}

NoRequest == [op |-> "none", id |-> <<>>, destinationId |-> <<>>]

NoResponse ==
    [status |-> 0, contentType |-> "", body |-> Nil, result |-> NilHotels,
     calls |-> <<>>]

InitServe ==
    /\ store \in Stores
    /\ request = NoRequest
    /\ response = NoResponse
    /\ mainPc = "unused"
    /\ mainLog = <<>>
    /\ exitCode = -1
    /\ fetchPc = "unused"
    /\ fetchLog = <<>>
    /\ responses = <<>>
    /\ catalog = Nil
    /\ config = Nil
    /\ suppliers = <<>>
    /\ previous = Nil
    /\ latest = Nil
    /\ values = <<>>
    /\ op = "unused"
    /\ visit = <<>>
    /\ out = Nil
    /\ leafActions = <<>>
    /\ expression = <<>>
    /\ record = Nil
    /\ extracted = Nil
    /\ evalPc = "unused"
    /\ mappingJSON = Nil
    /\ loaded = Nil

\* GET /hotels with some values of the two parameters
DoHandleQueryHotels ==
    /\ \E id \in IdParams, destinationId \in DestinationParams :
          /\ request' = [op |-> "GET /hotels", id |-> id, destinationId |-> destinationId]
          /\ response' = handleQueryHotels(store, id, destinationId)
    /\ UNCHANGED <<store, mainVars, fetchVars, engineVars, leafVars, evalVars, loadVars>>

\* GET /
DoHandleGetAllHotels ==
    /\ request' = [op |-> "GET /", id |-> <<>>, destinationId |-> <<>>]
    /\ response' = handleGetAllHotels(store)
    /\ UNCHANGED <<store, mainVars, fetchVars, engineVars, leafVars, evalVars, loadVars>>

\* one call of FilterByIds on the store
DoFilterByIds ==
    /\ \E ids \in IdParams :
          /\ request' = [op |-> "FilterByIds", id |-> ids, destinationId |-> <<>>]
          /\ response' = [NoResponse EXCEPT !.result = FilterByIds(store, ids),
                                            !.calls = <<"FilterByIds">>]
    /\ UNCHANGED <<store, mainVars, fetchVars, engineVars, leafVars, evalVars, loadVars>>

\* one call of FilterByDestinations on the store
DoFilterByDestinations ==
    /\ \E destinationIds \in DestinationParams :
          /\ request' = [op |-> "FilterByDestinations", id |-> <<>>,
                         destinationId |-> destinationIds]
          /\ response' = [NoResponse EXCEPT
                             !.result = FilterByDestinations(store, destinationIds),
                             !.calls = <<"FilterByDestinations">>]
    /\ UNCHANGED <<store, mainVars, fetchVars, engineVars, leafVars, evalVars, loadVars>>

NextServe ==
    \/ DoHandleQueryHotels
    \/ DoHandleGetAllHotels
    \/ DoFilterByIds
    \/ DoFilterByDestinations

SpecServe == InitServe /\ [][NextServe]_vars

----------------------------------------------------------------------------
(* Properties of the HTTP handlers and the store                           *)

\* C21: GET /hotels with both parameters is answered with status 400 and a
\* message, without a call on the store and without hotel data; with neither
\* parameter it is answered as GET / is.
C21_BothFiltersRejected ==
    request.op = "GET /hotels"
        => /\ (request.id # <<>> /\ request.destinationId # <<>>)
                 => /\ response.status = StatusBadRequest
                    /\ response.body.t = "str" /\ response.body.s # <<>>
                    /\ response.calls = <<>>
                    /\ response.result = NilHotels
           /\ (request.id = <<>> /\ request.destinationId = <<>>)
                 => response = handleGetAllHotels(store)

C21_Witness ==
    /\ request.op = "GET /hotels"
    /\ request.id = <<"h", "1">>
    /\ request.destinationId = <<"1">>
    /\ response.status = StatusBadRequest
    /\ \E i \in 1..Len(store.items) :
          store.items[i].Id = <<"h", "1">> /\ store.items[i].DestinationId = 1

\* the items of the list a filter was given
RequestedItems(list) == SeqToSet(Split(list, ","))

\* what FilterByIds is to return: the stored hotels whose id is an item of
\* the list, in store order
FilterByIdsReturnsRequested ==
    request.op = "FilterByIds"
        => LET Requested(h) == h.Id \in RequestedItems(request.id)
           IN  response.result.items = SelectSeq(store.items, Requested)

\* C22: FilterByIds returns the stored hotels whose id is an item of the
\* comma-separated list, every one of them and nothing else, in store order,
\* and no step changes the hotels of the store.
C22_FilterByIdsExact ==
    [](FilterByIdsReturnsRequested) /\ [][store' = store]_vars

\* two stored hotels with one requested id are both returned, a third hotel
\* is not
C22_Witness ==
    /\ request.op = "FilterByIds"
    /\ Len(response.result.items) = 2
    /\ Len(store.items) = 3
    /\ response.result.items[1].Id = response.result.items[2].Id
    /\ response.result.items[1] # response.result.items[2]

\* what FilterByDestinations is to return: the stored hotels whose
\* destination id, in decimal, is an item of the list, in store order
FilterByDestinationsReturnsRequested ==
    request.op = "FilterByDestinations"
        => LET Requested(h) ==
                   \E item \in RequestedItems(request.destinationId) :
                      item = Itoa(h.DestinationId)
           IN  response.result.items = SelectSeq(store.items, Requested)

\* C23: FilterByDestinations returns the stored hotels whose destination id
\* is one of the comma-separated integers, all of them and not only the first
\* of a destination, in store order, and no step changes the hotels of the
\* store.
C23_FilterByDestinationsExact ==
    [](FilterByDestinationsReturnsRequested) /\ [][store' = store]_vars

\* two hotels of one destination are both returned, a hotel of another
\* destination is not
C23_Witness ==
    /\ request.op = "FilterByDestinations"
    /\ Len(store.items) = 3
    /\ Len(response.result.items) = 2
    /\ response.result.items[1].DestinationId = 1
    /\ response.result.items[2].DestinationId = 1
    /\ response.result.items[1].Id # response.result.items[2].Id

----------------------------------------------------------------------------
(* main: from the mapping file to the listening server                     *)

\* what ./mapping.json can hold: bytes that are no JSON, documents that are no
\* object, the mapping of the three suppliers, and objects without a usable
\* id leaf: no id entry, an id entry that is no object, an id leaf that maps a
\* supplier to null or to a number
MainDocuments ==
    {InvalidJSON, Nil, Arr(<<>>), Obj(FetchMapping), Obj(<<>>),
     Obj(<<"i", "d">> :> Num(1)),
     Obj(<<"i", "d">> :> Obj(dataSupplierPrefix \o GetSuppliers[1] :> Nil)),
     Obj(<<"i", "d">> :> Obj(dataSupplierPrefix \o GetSuppliers[1] :> Num(1)))}

\* the loop of FetchAndNormalize over the answers of the suppliers, in order
RECURSIVE responsesFrom(_, _, _)
responsesFrom(answers, n, collected) ==
    IF n > Len(answers) THEN collected
    ELSE LET fetched == fetchSupplierData(answers[n])
         IN  responsesFrom(answers, n + 1,
                           IF fetched.err # "" THEN collected
                           ELSE [name \in DOMAIN collected \cup {GetSuppliers[n]} |->
                                    IF name = GetSuppliers[n] THEN fetched.body
                                    ELSE collected[name]])

\* FetchAndNormalize, given what each supplier answers
FetchAndNormalize(cfg, answers) ==
    deduplicateHotels(responsesFrom(answers, 1, <<>>), cfg)

\* the answers of the three suppliers to one run of FetchAndNormalize
AnswerLists ==
    {answers \in [1..Len(GetSuppliers) -> UNION {Answers(GetSuppliers[i]) :
                                                   i \in 1..Len(GetSuppliers)}] :
        \A i \in 1..Len(GetSuppliers) : answers[i] \in Answers(GetSuppliers[i])}

\* the hotels FetchAndNormalize returns: the nil slice when Transform wrote
\* null
hotelsOfCatalog(outcome) ==
    IF outcome.transformed.output = Nil THEN NilHotels
    ELSE HotelsOf(outcome.hotels)

Done(step) == [step |-> step, ok |-> TRUE]

Failed(step) == [step |-> step, ok |-> FALSE]

InitMain ==
    /\ mainPc = "open"
    /\ mainLog = <<>>
    /\ exitCode = -1
    /\ store = NilHotels
    /\ request = NoRequest
    /\ response = NoResponse
    /\ mappingJSON = Nil
    /\ loaded = NotLoaded
    /\ config = Nil
    /\ suppliers = <<>>
    /\ previous = NoCall
    /\ latest = NoCall
    /\ fetchPc = "unused"
    /\ fetchLog = <<>>
    /\ responses = <<>>
    /\ catalog = NoCatalog
    /\ values = <<>>
    /\ op = "unused"
    /\ visit = <<>>
    /\ out = Nil
    /\ leafActions = <<>>
    /\ expression = <<>>
    /\ record = Nil
    /\ extracted = Nil
    /\ evalPc = "unused"

\* os.Open("./mapping.json"): the file opens, or main prints and exits with 1
DoOpenMapping ==
    /\ mainPc = "open"
    /\ \E opened \in BOOLEAN :
          IF opened
          THEN /\ mainPc' = "read"
               /\ mainLog' = Append(mainLog, Done("open"))
               /\ exitCode' = exitCode
          ELSE /\ mainPc' = "exited"
               /\ mainLog' = Append(mainLog, Failed("open"))
               /\ exitCode' = 1
    /\ UNCHANGED <<serveVars, fetchVars, engineVars, loadVars, leafVars, evalVars>>

\* io.ReadAll(file): the bytes of the file, or main prints and exits with 1
DoReadMapping ==
    /\ mainPc = "read"
    /\ \/ /\ \E doc \in MainDocuments : mappingJSON' = doc
          /\ mainPc' = "engine"
          /\ mainLog' = Append(mainLog, Done("read"))
          /\ exitCode' = exitCode
       \/ /\ mappingJSON' = mappingJSON
          /\ mainPc' = "exited"
          /\ mainLog' = Append(mainLog, Failed("read"))
          /\ exitCode' = 1
    /\ UNCHANGED <<loaded, serveVars, fetchVars, engineVars, leafVars, evalVars>>

\* mapper.NewMappingEngine(mappingConfig): on an error main prints and exits
\* with 1
DoMainNewMappingEngine ==
    /\ mainPc = "engine"
    /\ loaded' = NewMappingEngine(mappingJSON)
    /\ IF loaded'.status = "engine"
       THEN /\ config' = loaded'.config
            /\ mainPc' = "fetch"
            /\ mainLog' = Append(mainLog, Done("engine"))
            /\ exitCode' = exitCode
       ELSE /\ config' = config
            /\ mainPc' = "exited"
            /\ mainLog' = Append(mainLog, Failed("engine"))
            /\ exitCode' = 1
    /\ UNCHANGED <<mappingJSON, suppliers, previous, latest, serveVars, fetchVars,
                   leafVars, evalVars>>

\* hotels.FetchAndNormalize(engine) that goes on to store.Set whatever it
\* returned
DoFetchAndNormalizeNoExit ==
    /\ mainPc = "fetch"
    /\ \E answers \in AnswerLists :
          \E outcome \in FetchAndNormalize(config, answers) :
             /\ fetchLog' = answers
             /\ responses' = responsesFrom(answers, 1, <<>>)
             /\ suppliers' = responses'
             /\ catalog' = outcome
             /\ latest' = outcome.transformed
             /\ mainPc' = "set"
             /\ mainLog' = Append(mainLog, IF outcome.status = "ok" THEN Done("fetch")
                                           ELSE Failed("fetch"))
             /\ exitCode' = exitCode
    /\ UNCHANGED <<fetchPc, config, previous, serveVars, loadVars, leafVars, evalVars>>

\* hotels.FetchAndNormalize(engine): on an error main prints and exits with 1;
\* a panic of Transform ends the process with 2
DoFetchAndNormalize ==
    /\ mainPc = "fetch"
    /\ \E answers \in AnswerLists :
          \E outcome \in FetchAndNormalize(config, answers) :
             /\ fetchLog' = answers
             /\ responses' = responsesFrom(answers, 1, <<>>)
             /\ suppliers' = responses'
             /\ catalog' = outcome
             /\ latest' = outcome.transformed
             /\ IF outcome.status = "ok"
                THEN /\ mainPc' = "set"
                     /\ mainLog' = Append(mainLog, Done("fetch"))
                     /\ exitCode' = exitCode
                ELSE /\ mainPc' = "exited"
                     /\ mainLog' = Append(mainLog, Failed("fetch"))
                     /\ exitCode' = IF outcome.status = "panic" THEN 2 ELSE 1
    /\ UNCHANGED <<fetchPc, config, previous, serveVars, loadVars, leafVars, evalVars>>

\* store.Set(hotels)
DoSetStore ==
    /\ mainPc = "set"
    /\ store' = hotelsOfCatalog(catalog)
    /\ mainPc' = "start"
    /\ mainLog' = Append(mainLog, Done("set"))
    /\ UNCHANGED <<exitCode, request, response, fetchVars, engineVars, loadVars,
                   leafVars, evalVars>>

\* server.New(store) and srv.Start(): the server listens and serves, or
\* ListenAndServe returns an error and log.Fatal exits with 1
DoStart ==
    /\ mainPc = "start"
    /\ \E listening \in BOOLEAN :
          IF listening
          THEN /\ mainPc' = "serving"
               /\ mainLog' = Append(mainLog, Done("start"))
               /\ exitCode' = exitCode
          ELSE /\ mainPc' = "exited"
               /\ mainLog' = Append(mainLog, Failed("start"))
               /\ exitCode' = 1
    /\ UNCHANGED <<serveVars, fetchVars, engineVars, loadVars, leafVars, evalVars>>

\* the listening server answers GET /
DoServeGetAllHotels ==
    /\ mainPc = "serving"
    /\ request' = [op |-> "GET /", id |-> <<>>, destinationId |-> <<>>]
    /\ response' = handleGetAllHotels(store)
    /\ UNCHANGED <<store, mainVars, fetchVars, engineVars, loadVars, leafVars, evalVars>>

NextMain ==
    \/ DoOpenMapping
    \/ DoReadMapping
    \/ DoMainNewMappingEngine
    \/ DoFetchAndNormalize
    \/ DoSetStore
    \/ DoStart
    \/ DoServeGetAllHotels

SpecMain == InitMain /\ [][NextMain]_vars

----------------------------------------------------------------------------
(* Properties of main                                                      *)

\* the steps of startup, in the order main takes them
StartupSteps == <<"open", "read", "engine", "fetch", "set", "start">>

\* the log holds the first steps of startup, in order
LogIsStartupPrefix ==
    /\ Len(mainLog) <= Len(StartupSteps)
    /\ \A i \in 1..Len(mainLog) : mainLog[i].step = StartupSteps[i]

\* C24: the server serves (and answers a request) only after every step of
\* startup was completed, in order, with the store holding what
\* FetchAndNormalize returned; a step that fails is the last one, the process
\* has exited with a code that is not zero, and it is not serving.
C24_StartupOrdering ==
    /\ LogIsStartupPrefix
    /\ (mainPc = "serving" \/ response # NoResponse)
          => /\ mainLog = [i \in 1..Len(StartupSteps) |-> Done(StartupSteps[i])]
             /\ loaded.status = "engine"
             /\ catalog.status = "ok"
             /\ store = hotelsOfCatalog(catalog)
             /\ exitCode = -1
    /\ \A i \in 1..Len(mainLog) :
          ~mainLog[i].ok => /\ i = Len(mainLog)
                            /\ mainPc = "exited"
                            /\ exitCode \notin {-1, 0}
    /\ (loaded.status = "error" \/ catalog.status \in {"error", "panic"})
          => mainPc = "exited" /\ exitCode \notin {-1, 0}

\* the server serves a catalog after two of the three fetches failed
C24_Witness ==
    /\ mainPc = "serving"
    /\ response.status = StatusOK
    /\ Len(store.items) = 1
    /\ Cardinality(DOMAIN responses) = 1

----------------------------------------------------------------------------
(* Properties of Transform: the engine, the output paths, the id leaf      *)

\* what the latest call returned is among the outcomes of Transform on the
\* engine as it is, whatever was called before
OutcomeOfEngineAlone ==
    latest.status # "none" => latest \in Transform(config, suppliers)

\* C25: no call of Transform, successful or failing, changes the mapping tree
\* of the engine (the vocabulary tables are constants of the package that
\* nothing assigns to), and what a call returns is an outcome of Transform on
\* the engine as constructed, whatever calls were made before it.
C25_TransformLeavesEngine ==
    [](OutcomeOfEngineAlone) /\ [][config' = config]_vars

\* a second call after a first one, on an engine whose leaf has an action
C25_Witness ==
    /\ config = AmenityMapping
    /\ previous.status = "ok"
    /\ latest.status = "ok"
    /\ OutputLen(latest.output) = 2


\* the dotted path of a key below a path
Dotted(path, key) == IF path = <<>> THEN key ELSE path \o <<".">> \o key

\* the leaf mappings of a mapping document with their dotted paths: the
\* objects with a supplier path that no object with a supplier path encloses
RECURSIVE MappingLeaves(_, _)
MappingLeaves(path, node) ==
    IF node.t # "obj" THEN {}
    ELSE IF \E key \in DOMAIN node.o : HasPrefix(key, dataSupplierPrefix)
    THEN {[path |-> path, mapping |-> node.o]}
    ELSE UNION {MappingLeaves(Dotted(path, key), node.o[key]) :
                   key \in DOMAIN node.o}

MappingLeafPaths == {leaf.path : leaf \in MappingLeaves(<<>>, Obj(config))}

\* the fields of a merged record with their dotted paths: the walk goes
\* through the objects that are not at the path of a leaf mapping and ends at
\* every other value
RECURSIVE FieldsBelow(_, _)
FieldsBelow(path, value) ==
    IF value.t # "obj" \/ path \in MappingLeafPaths \/ DOMAIN value.o = {}
    THEN {[path |-> path, value |-> value]}
    ELSE UNION {FieldsBelow(Dotted(path, key), value.o[key]) :
                   key \in DOMAIN value.o}

RecordFields(rec) ==
    UNION {FieldsBelow(key, rec.o[key]) : key \in DOMAIN rec.o}

\* what the source fields a leaf mapping refers to hold in the group of merged
\* record i, as they are written: a string without its surrounding white space
ReferencedValues(i, mapping) ==
    {jsonValue(Trimmed(extractValue(GroupOf(i)[TrimPrefix(key, dataSupplierPrefix)],
                                    mapping[key]))) :
        key \in {k \in DOMAIN mapping :
                    /\ HasPrefix(k, dataSupplierPrefix)
                    /\ TrimPrefix(k, dataSupplierPrefix) \in DOMAIN GroupOf(i)}}

\* C26: every field of a merged record is at the dotted path of a leaf
\* mapping of the configuration, and the field of a leaf without actions holds
\* what one of the source fields the leaf refers to holds; so neither a source
\* field no leaf refers to nor a key nested inside a leaf mapping makes an
\* output field
C26_FieldsAreLeafPaths ==
    latest.status = "ok" =>
        \A i \in 1..OutputLen(latest.output) :
            \A field \in RecordFields(latest.output.a[i]) :
                \E leaf \in MappingLeaves(<<>>, Obj(config)) :
                    /\ leaf.path = field.path
                    /\ <<"a", "c", "t", "i", "o", "n", "s">> \notin DOMAIN leaf.mapping
                          => field.value \in ReferencedValues(i, leaf.mapping)

C26_Witness ==
    /\ config = NestedKeyMapping
    /\ latest.status = "ok"
    /\ \E i \in 1..OutputLen(latest.output) :
          /\ <<"n", "a", "m", "e">> \in DOMAIN latest.output.a[i].o
          /\ <<"s", "2">> \in DOMAIN latest.hotelGroups[latest.hotelIds[i]]


----------------------------------------------------------------------------
(* Properties of Transform called by main                                  *)

\* C27: on a mapping NewMappingEngine accepted, whatever its id entry is,
\* Transform ends with an error value or a result and never with a panic
C27_TransformNeverPanics ==
    (loaded.status = "engine" /\ latest.status # "none")
        => latest.status \in {"ok", "error"}


\* the suppliers of the input that the id leaf of the mapping has no entry for
SuppliersWithoutIdEntry ==
    IF <<"i", "d">> \in DOMAIN config /\ config[<<"i", "d">>].t = "obj"
    THEN {sn \in DOMAIN suppliers :
             dataSupplierPrefix \o sn \notin DOMAIN config[<<"i", "d">>].o}
    ELSE {}

\* C28: when the input holds a supplier that the id leaf has no entry for,
\* Transform returns an error for the whole call and no record, whatever the
\* payloads and the order the suppliers are visited in
C28_UnmappedSupplierFailsCall ==
    (latest.status # "none" /\ SuppliersWithoutIdEntry # {})
        => latest.status = "error" /\ latest.output = Nil


----------------------------------------------------------------------------
(* Properties of Transform: the id of a merged record, the output document *)

\* the id field of merged record i, Nil when it has none
IdOf(i) ==
    IF <<"i", "d">> \in DOMAIN latest.output.a[i].o THEN latest.output.a[i].o[<<"i", "d">>]
    ELSE Nil

\* C29: the id field of every merged record is the identity string its group
\* is keyed under, exactly, so no two records of one output have the same id
C29_IdIsGroupKey ==
    latest.status = "ok" =>
        /\ \A i \in 1..OutputLen(latest.output) : IdOf(i) = Str(latest.hotelIds[i])
        /\ \A i, j \in 1..OutputLen(latest.output) : IdOf(i) = IdOf(j) => i = j


\* C30: whenever Transform succeeds its output is a JSON array, the empty
\* array when there is no record group, and what GET / serves is a JSON array
C30_OutputIsArray ==
    /\ latest.status = "ok" => latest.output.t = "arr"
    /\ request.op = "GET /" => response.body.t = "arr"

====
